---- MODULE Spec2Model ----
(***************************************************************************)
(* Model of the Gameplay plugin's per-actor Arsenal: the stat set (lazy    *)
(* dirty-flag resolution, dependency propagation, change notifications)    *)
(* and the effect set (time-ordered active list, stacking, ticking and     *)
(* expiration), with the modifier arithmetic that couples them.            *)
(*                                                                         *)
(* Real32/Real64 values are modelled as exact rationals <<n, d>> in lowest *)
(* terms with d >= 0; d = 0 encodes the IEEE specials: <<1,0>> = +inf,     *)
(* <<-1,0>> = -inf and <<0,0>> = NaN.                                      *)
(***************************************************************************)
EXTENDS Integers, Sequences, FiniteSets, TLC

VARIABLES
    clock,          \* absolute simulation time of the last Tick (Time::GetAbsolute)
    stats,          \* StatSet::mRegistry: handle -> Stat instance or NoStat
    dependencies,   \* StatSet::mDependencies: handle -> set of dependent handles
    observers,      \* StatSet::mObservers: handle -> number of delegates bound
    notifications,  \* StatSet::mNotifications
    registry,       \* EffectSet::mRegistry: id -> effect instance or NoEffect
    actives,        \* EffectSet::mActives, soonest event at the back
    observations,   \* Arsenal::mObservations: handle -> set of <<effect id, slot>>
    crashed,        \* the process was terminated, or has used a freed instance
    log,            \* what the last public call did, in execution order
    shadow,         \* the stat set the direct modifiers alone would have produced
    budget,         \* remaining ApplyModifier / RevertModifier / ApplyEffect calls
    probe,          \* inputs and phase of the pure-function specifications
    previous,       \* handle -> value of a queued stat before the frame touched it
    freed           \* id -> what a free slot of EffectSet::mRegistry holds

vars == <<clock, stats, dependencies, observers, notifications, registry, actives,
          observations, crashed, log, shadow, budget, probe, previous,
          freed>>

----------------------------------------------------------------------------
(* Bounds of the model.                                                    *)

MaxTime == 4
MaxStep == 2
MaxLive == 3
MaxCalls == 3

----------------------------------------------------------------------------
(* Op applied to value: names the result of one call for its uses, so that *)
(* the call is made once.                                                  *)

Bind(value, Op(_)) == Op(value)

----------------------------------------------------------------------------
(* Real arithmetic.                                                        *)

Abs(n) == IF n < 0 THEN -n ELSE n

Sign(n) == IF n < 0 THEN -1 ELSE IF n > 0 THEN 1 ELSE 0

RECURSIVE GCD(_, _)
GCD(a, b) == IF b = 0 THEN a ELSE GCD(b, a % b)

Norm(n, d) ==
    IF d = 0 THEN <<Sign(n), 0>>
    ELSE LET g == GCD(Abs(n), Abs(d))
             s == Sign(d)
         IN  <<(s * n) \div g, (s * d) \div g>>

Real(n) == <<n, 1>>

Ratio(n, d) == Norm(n, d)

NaN == <<0, 0>>

kInfinity == <<1, 0>>

IsNaN(a) == a = NaN

RNeg(a) == <<-a[1], a[2]>>

RAdd(a, b) ==
    IF IsNaN(a) \/ IsNaN(b) THEN NaN
    ELSE IF a[2] = 0 /\ b[2] = 0 THEN (IF a = b THEN a ELSE NaN)
    ELSE IF a[2] = 0 THEN a
    ELSE IF b[2] = 0 THEN b
    ELSE Norm(a[1] * b[2] + b[1] * a[2], a[2] * b[2])

RSub(a, b) == RAdd(a, RNeg(b))

RMul(a, b) == Norm(a[1] * b[1], a[2] * b[2])

RInv(a) == Norm(a[2], a[1])

RLt(a, b) ==
    /\ ~IsNaN(a)
    /\ ~IsNaN(b)
    /\ IF a[2] = 0 /\ b[2] = 0 THEN a[1] < b[1]
       ELSE a[1] * b[2] < b[1] * a[2]

RGt(a, b) == RLt(b, a)

RLe(a, b) == ~IsNaN(a) /\ ~IsNaN(b) /\ ~RLt(b, a)

RGe(a, b) == RLe(b, a)

Min(a, b) == IF RLt(b, a) THEN b ELSE a

Max(a, b) == IF RLt(a, b) THEN b ELSE a

Clamp(v, lo, hi) == IF RLt(v, lo) THEN lo ELSE IF RGt(v, hi) THEN hi ELSE v

RECURSIVE Pow(_, _)
Pow(a, n) == IF n = 0 THEN Real(1) ELSE RMul(a, Pow(a, n - 1))

IsAlmostEqual(a, b) == a = b

----------------------------------------------------------------------------
(* Stat archetypes (StatRepository), indexed by handle id.                 *)

Float(n) == [kind |-> "Float", value |-> Real(n)]

Ref(h, b, c) == [kind |-> "Ref", handle |-> h, scope |-> "Target",
                 base |-> Real(b), coefficient |-> Real(c)]

StatRepository == <<
    [name |-> "Strength", category |-> "Attribute",
     base |-> Float(10), minimum |-> Float(0), maximum |-> Float(100)],
    [name |-> "Power", category |-> "Attribute",
     base |-> Ref(1, 0, 2), minimum |-> Float(0), maximum |-> Float(100)],
    [name |-> "Might", category |-> "Attribute",
     base |-> Ref(2, 0, 1), minimum |-> Float(0), maximum |-> Float(100)],
    [name |-> "Health", category |-> "Resource",
     base |-> Float(20), minimum |-> Float(0), maximum |-> Ref(1, 10, 1)],
    [name |-> "Vitality", category |-> "Resource",
     base |-> Float(100), minimum |-> Float(0), maximum |-> Float(100)] >>

StatHandles == DOMAIN StatRepository

NoStat == [none |-> TRUE]

StatOperators == {"Flat", "Additive", "Multiplicative", "Divisive", "Replace"}

\* Stat::Stat(Archetype)
NewStat == [flat |-> Real(0), additive |-> Real(0), multiplier |-> Real(1),
            effective |-> Real(0), dirty |-> TRUE, undefined |-> TRUE]

\* StatInput::Traverse with StatOrigin::Target
InputTraverse(input) ==
    IF input.kind = "Ref" /\ input.scope = "Target" THEN {input.handle} ELSE {}

\* StatArchetype::Traverse
Traverse(h) ==
    InputTraverse(StatRepository[h].base)
        \cup InputTraverse(StatRepository[h].minimum)
        \cup InputTraverse(StatRepository[h].maximum)

\* StatFormula::Default
Default(base, flat, additive, multiplier) ==
    RMul(RMul(RAdd(base, flat), RAdd(Real(1), additive)), multiplier)

----------------------------------------------------------------------------
(* Stat resolution.  Every operator returns [v |-> value, s |-> stat set], *)
(* because Stat::Calculate writes the mutable cache behind a const access. *)

RECURSIVE GetStat(_, _), Resolve(_, _), ArchetypeCalculate(_, _, _, _, _), Calculate(_, _)

\* StatInput::Resolve
Resolve(s, input) ==
    IF input.kind = "Float" THEN [v |-> input.value, s |-> s]
    ELSE Bind(GetStat(s, input.handle), LAMBDA r :
             [v |-> RAdd(input.base, RMul(r.v, input.coefficient)), s |-> r.s])

\* StatArchetype::Calculate
ArchetypeCalculate(s, h, flat, additive, multiplier) ==
    Bind(Resolve(s, StatRepository[h].base), LAMBDA b :
    Bind(Resolve(b.s, StatRepository[h].minimum), LAMBDA lo :
    Bind(Resolve(lo.s, StatRepository[h].maximum), LAMBDA hi :
        [v |-> Clamp(Default(b.v, flat, additive, multiplier), lo.v, hi.v), s |-> hi.s])))

\* Stat::Calculate
Calculate(s, h) ==
    IF s[h].dirty
    THEN Bind(ArchetypeCalculate([s EXCEPT ![h].dirty = FALSE], h,
                                 s[h].flat, s[h].additive, s[h].multiplier), LAMBDA r :
             [v |-> r.v,
              s |-> [r.s EXCEPT ![h].effective = r.v, ![h].undefined = FALSE]])
    ELSE [v |-> s[h].effective, s |-> s]

\* Arsenal::GetStat reading a stat without an instance as zero
GetStatOrZero(s, h) ==
    IF s[h] # NoStat THEN Calculate(s, h) ELSE [v |-> Real(0), s |-> s]

\* Arsenal::GetStat
GetStat(s, h) ==
    IF s[h] # NoStat THEN Calculate(s, h)
    ELSE ArchetypeCalculate(s, h, Real(0), Real(0), Real(1))

\* Stat::SetEffective storing the value without clamping it
SetEffectiveUnclamped(s, h, effective) ==
    [s EXCEPT ![h].effective = effective, ![h].dirty = FALSE, ![h].undefined = FALSE]

\* Stat::SetEffective
SetEffective(s, h, effective) ==
    Bind(Resolve(s, StatRepository[h].minimum), LAMBDA lo :
    Bind(Resolve(lo.s, StatRepository[h].maximum), LAMBDA hi :
        [hi.s EXCEPT ![h].effective = Clamp(effective, lo.v, hi.v),
                     ![h].dirty = FALSE,
                     ![h].undefined = FALSE]))

\* Stat::IsUndefined
IsUndefined(s, h) == s[h].undefined

\* Stat::GetOutcome
GetOutcome(s, h) == ArchetypeCalculate(s, h, s[h].flat, s[h].additive, s[h].multiplier)

\* Stat::Modify<Apply>
Modify(s, h, apply, operator, amount) ==
    IF StatRepository[h].category = "Attribute"
    THEN CASE operator = "Flat" ->
                [s EXCEPT ![h].flat = RAdd(@, IF apply THEN amount ELSE RNeg(amount))]
           [] operator = "Additive" ->
                [s EXCEPT ![h].additive = RAdd(@, IF apply THEN amount ELSE RNeg(amount))]
           [] operator = "Multiplicative" ->
                [s EXCEPT ![h].multiplier = RMul(@, IF apply THEN amount ELSE RInv(amount))]
           [] operator = "Divisive" ->
                [s EXCEPT ![h].multiplier = RMul(@, IF apply THEN RInv(amount) ELSE amount)]
           [] operator = "Replace" ->
                IF apply THEN SetEffective(s, h, amount) ELSE s
    ELSE IF apply
         THEN SetEffective(s, h,
                  CASE operator = "Flat" -> RAdd(s[h].effective, amount)
                    [] operator = "Additive" -> RMul(s[h].effective, RAdd(Real(1), amount))
                    [] operator = "Multiplicative" -> RMul(s[h].effective, amount)
                    [] operator = "Divisive" -> RMul(s[h].effective, RInv(amount))
                    [] operator = "Replace" -> amount)
         ELSE s

----------------------------------------------------------------------------
(* Effect archetypes (EffectRepository), indexed by handle id.             *)

Bonus(target, evaluation, operator, magnitude) ==
    [target |-> target, evaluation |-> evaluation, operator |-> operator,
     magnitude |-> magnitude]

EffectRepository == <<
    [name |-> "Bless", application |-> "Temporary",
     duration |-> Float(3), period |-> Float(0), limit |-> 1,
     expiration |-> "All", refresh |-> "Replace", resolution |-> "Additive",
     stack |-> "Linear",
     bonuses |-> <<Bonus(1, "Snapshot", "Flat", Float(2))>>],
    [name |-> "Focus", application |-> "Temporary",
     duration |-> Float(4), period |-> Float(1), limit |-> 1,
     expiration |-> "All", refresh |-> "Replace", resolution |-> "Additive",
     stack |-> "Linear",
     bonuses |-> <<Bonus(2, "Snapshot", "Flat", Ref(1, 0, 1))>>],
    [name |-> "Fury", application |-> "Temporary",
     duration |-> Float(3), period |-> Float(2), limit |-> 3,
     expiration |-> "Single", refresh |-> "Extend", resolution |-> "Additive",
     stack |-> "Linear",
     bonuses |-> <<Bonus(3, "Snapshot", "Additive", Float(1))>>],
    [name |-> "Aura", application |-> "Permanent",
     duration |-> Float(0), period |-> Float(0), limit |-> 1,
     expiration |-> "All", refresh |-> "Keep", resolution |-> "Additive",
     stack |-> "Independent",
     bonuses |-> <<Bonus(4, "Live", "Flat", Float(1))>>],
    [name |-> "Strike", application |-> "Instant",
     duration |-> Float(0), period |-> Float(0), limit |-> 1,
     expiration |-> "All", refresh |-> "Keep", resolution |-> "Additive",
     stack |-> "Linear",
     bonuses |-> <<Bonus(4, "Snapshot", "Flat", Float(-5))>>],
    [name |-> "Regen", application |-> "Temporary",
     duration |-> Float(15), period |-> Float(5), limit |-> 1,
     expiration |-> "All", refresh |-> "Keep", resolution |-> "Additive",
     stack |-> "Linear",
     bonuses |-> <<Bonus(5, "Snapshot", "Flat", Float(10))>>],
    [name |-> "Venom", application |-> "Temporary",
     duration |-> Float(3), period |-> Float(1), limit |-> 3,
     expiration |-> "Tick", refresh |-> "Keep", resolution |-> "Additive",
     stack |-> "Linear",
     bonuses |-> <<Bonus(5, "Snapshot", "Flat", Float(-1))>>],
    [name |-> "Rage", application |-> "Temporary",
     duration |-> Float(4), period |-> Float(0), limit |-> 3,
     expiration |-> "Single", refresh |-> "Longest", resolution |-> "Additive",
     stack |-> "Exponential",
     bonuses |-> <<Bonus(1, "Snapshot", "Flat", Float(1))>>],
    [name |-> "Ward", application |-> "Temporary",
     duration |-> Float(2), period |-> Float(0), limit |-> 3,
     expiration |-> "All", refresh |-> "Keep", resolution |-> "Additive",
     stack |-> "Diminish",
     bonuses |-> <<Bonus(5, "Snapshot", "Flat", Float(8))>>],
    [name |-> "Hex", application |-> "Temporary",
     duration |-> Float(3), period |-> Float(0), limit |-> 3,
     expiration |-> "All", refresh |-> "Keep", resolution |-> "Replace",
     stack |-> "Linear",
     bonuses |-> <<Bonus(5, "Snapshot", "Flat", Float(-2))>>],
    [name |-> "Peak", application |-> "Temporary",
     duration |-> Float(3), period |-> Float(0), limit |-> 3,
     expiration |-> "All", refresh |-> "Longest", resolution |-> "Highest",
     stack |-> "Linear",
     bonuses |-> <<Bonus(5, "Snapshot", "Flat", Float(2))>>],
    [name |-> "Ebb", application |-> "Temporary",
     duration |-> Float(3), period |-> Float(0), limit |-> 3,
     expiration |-> "All", refresh |-> "Extend", resolution |-> "Lowest",
     stack |-> "Linear",
     bonuses |-> <<Bonus(5, "Snapshot", "Flat", Float(-1))>>],
    [name |-> "Blend", application |-> "Temporary",
     duration |-> Float(3), period |-> Float(0), limit |-> 3,
     expiration |-> "All", refresh |-> "Replace", resolution |-> "Average",
     stack |-> "Linear",
     bonuses |-> <<Bonus(5, "Snapshot", "Flat", Float(1))>>],
    [name |-> "Pulse", application |-> "Temporary",
     duration |-> Float(0), period |-> Float(1), limit |-> 1,
     expiration |-> "All", refresh |-> "Keep", resolution |-> "Additive",
     stack |-> "Linear",
     bonuses |-> <<Bonus(1, "Snapshot", "Flat", Float(1))>>] >>

EffectArchetypes == DOMAIN EffectRepository

\* EffectSet::kMaxInstances
kMaxInstances == 256

\* capacity of the Threshold buffer of EffectSet::Poll
kThreshold == 6

\* width of EffectData::mStack
UInt16 == 65536

EffectIds == 1..MaxLive

NoEffect == [none |-> TRUE]

\* EffectArchetype::CanStack
CanStack(archetype) == EffectRepository[archetype].limit > 1

\* EffectData::EffectData(Archetype)
NewEffect(archetype) ==
    [archetype |-> archetype, stack |-> 1, duration |-> Real(0), period |-> Real(0),
     intensity |-> Real(1), expiration |-> Real(0), interval |-> Real(0),
     snapshot |-> [i \in DOMAIN EffectRepository[archetype].bonuses |-> Real(0)]]

\* EffectData::EffectData(), and the destructor's mHandle.Reset(): a slot of the
\* Catalog that has held no instance
Unused ==
    [archetype |-> 0, stack |-> 0, duration |-> Real(0), period |-> Real(0),
     intensity |-> Real(0), expiration |-> Real(0), interval |-> Real(0),
     snapshot |-> <<>>]

\* EffectData::CanExpire
CanExpire(e) == RGt(e.expiration, Real(0))

\* EffectData::CanTick
CanTick(e) == RGt(e.period, Real(0))

\* EffectData::GetEffectiveIntensity scaling linearly under every policy
GetEffectiveIntensityLinear(e) == RMul(e.intensity, Real(e.stack))

\* EffectData::GetEffectiveIntensity
GetEffectiveIntensity(e) ==
    LET policy == EffectRepository[e.archetype].stack
    IN  CASE policy = "Linear" -> RMul(e.intensity, Real(e.stack))
          [] policy = "Diminish" -> RSub(Real(1), Pow(Ratio(1, 2), e.stack))
          [] policy = "Exponential" -> Pow(e.intensity, e.stack)
          [] OTHER -> e.intensity

\* Effect::Merge combining the stack counts only
MergeStackOnly(e, other) ==
    LET arch == EffectRepository[e.archetype]
        sum  == e.stack + other.stack
    IN  [e EXCEPT !.stack = IF arch.limit < sum THEN arch.limit ELSE sum]

\* Effect::Merge adding the stacks without the cap of the archetype's limit
MergeUncapped(e, other) ==
    LET arch == EffectRepository[e.archetype]
    IN  IF arch.resolution \in {"Replace", "Highest", "Lowest"}
           /\ e.intensity # other.intensity
        THEN [e EXCEPT !.stack = 1, !.intensity = other.intensity]
        ELSE [e EXCEPT !.stack = e.stack + other.stack]

\* Effect::Merge combining the intensities without the test of IsFull
MergeWhenFull(e, other) ==
    LET arch == EffectRepository[e.archetype]
    IN  [e EXCEPT !.stack = IF arch.limit < e.stack + other.stack
                            THEN arch.limit ELSE e.stack + other.stack,
                  !.intensity =
                      CASE arch.resolution = "Additive" -> RAdd(e.intensity, other.intensity)
                        [] arch.resolution = "Average" ->
                              RMul(RAdd(e.intensity, other.intensity), Ratio(1, 2))
                        [] OTHER -> other.intensity]

\* Effect::Merge
Merge(e, other) ==
    LET arch == EffectRepository[e.archetype]
        replaced == IF arch.refresh = "Replace" THEN other.expiration ELSE e.expiration
        longest == IF arch.refresh \in {"Replace", "Longest"}
                   THEN Max(replaced, other.expiration) ELSE replaced
        extended == IF arch.refresh \in {"Replace", "Longest", "Extend"}
                    THEN RAdd(longest, other.expiration) ELSE longest
        IsFull == arch.limit = e.stack
        sum == e.stack + other.stack
        stack == IF arch.limit < sum THEN arch.limit ELSE sum
        differs == ~IsAlmostEqual(e.intensity, other.intensity)
        merged == [e EXCEPT !.expiration = extended, !.stack = stack]
    IN  CASE arch.resolution = "Additive" ->
                IF ~IsFull
                THEN [merged EXCEPT !.intensity = RAdd(e.intensity, other.intensity)]
                ELSE merged
          [] arch.resolution = "Replace" ->
                IF differs
                THEN [merged EXCEPT !.intensity = other.intensity, !.stack = 1]
                ELSE merged
          [] arch.resolution = "Highest" ->
                IF differs
                THEN [merged EXCEPT !.intensity = Max(e.intensity, other.intensity),
                                    !.stack = 1]
                ELSE merged
          [] arch.resolution = "Lowest" ->
                IF differs
                THEN [merged EXCEPT !.intensity = Min(e.intensity, other.intensity),
                                    !.stack = 1]
                ELSE merged
          [] arch.resolution = "Average" ->
                IF ~IsFull
                THEN [merged EXCEPT !.intensity =
                          RMul(RAdd(e.intensity, other.intensity), Ratio(1, 2))]
                ELSE merged

----------------------------------------------------------------------------
(* The Arsenal.  Its operations are operators over a record A holding the  *)
(* members of the stat set, the effect set and the arsenal, plus the       *)
(* events of the call in progress and whether a LOG_ASSERT has failed.     *)

\* StatSet::InsertDependencies
InsertDependencies(A, h) ==
    [A EXCEPT !.dependencies =
        [d \in StatHandles |-> IF d \in Traverse(h) THEN @[d] \cup {h} ELSE @[d]]]

\* StatSet::GetOrInsert
GetOrInsert(A, h) ==
    IF A.stats[h] # NoStat THEN A
    ELSE InsertDependencies([A EXCEPT !.stats[h] = NewStat], h)

\* StatSet::NotifyDependencies marking every other instance of the set dirty
NotifyDependenciesEvery(A, source) ==
    [A EXCEPT !.stats = [h \in DOMAIN A.stats |->
                            IF h # source /\ A.stats[h] # [none |-> TRUE]
                            THEN [A.stats[h] EXCEPT !.dirty = TRUE]
                            ELSE A.stats[h]],
              !.notifications = IF A.observers[source] > 0 THEN @ \cup {source} ELSE @]

RECURSIVE NotifyDependencies(_, _), NotifyDependents(_, _)

\* the loop over mDependencies[Source] of StatSet::NotifyDependencies
NotifyDependents(A, pending) ==
    IF pending = {} THEN A
    ELSE LET d == CHOOSE x \in pending : \A y \in pending : x <= y
         IN  NotifyDependents(
                 IF A.stats[d] # NoStat /\ ~A.stats[d].dirty
                 THEN NotifyDependencies([A EXCEPT !.stats[d].dirty = TRUE], d)
                 ELSE A,
                 pending \ {d})

\* StatSet::NotifyDependencies
NotifyDependencies(A, source) ==
    Bind(NotifyDependents(A, A.dependencies[source]), LAMBDA A1 :
        IF A1.observers[source] > 0
        THEN [A1 EXCEPT !.notifications = @ \cup {source}]
        ELSE A1)

\* Arsenal::ApplyModifier on a stat whose cached value is left as constructed
ApplyModifierUnseeded(A, h, operator, magnitude) ==
    Bind(IF A.stats[h] # NoStat THEN A
         ELSE [A EXCEPT !.stats[h] = [flat |-> Real(0), additive |-> Real(0),
                                      multiplier |-> Real(1), effective |-> Real(0),
                                      dirty |-> TRUE, undefined |-> TRUE],
                        !.dependencies =
                            [d \in DOMAIN A.dependencies |->
                                IF d \in Traverse(h) THEN @[d] \cup {h} ELSE @[d]]],
         LAMBDA A1 :
        NotifyDependencies(
            [A1 EXCEPT !.stats = Modify(A1.stats, h, TRUE, operator, magnitude)], h))

\* Arsenal::ApplyModifier
ApplyModifier(A, h, operator, magnitude) ==
    Bind(GetOrInsert(A, h), LAMBDA A1 :
    Bind(IF IsUndefined(A1.stats, h)
         THEN Bind(GetOutcome(A1.stats, h), LAMBDA o : SetEffective(o.s, h, o.v))
         ELSE A1.stats, LAMBDA s1 :
        NotifyDependencies(
            [A1 EXCEPT !.stats = Modify(s1, h, TRUE, operator, magnitude)], h)))

\* Arsenal::RevertModifier
RevertModifier(A, h, operator, magnitude) ==
    Bind(GetOrInsert(A, h), LAMBDA A1 :
        NotifyDependencies(
            [A1 EXCEPT !.stats = Modify(A1.stats, h, FALSE, operator, magnitude)], h))

RECURSIVE ApplyEffectModifiersFrom(_, _, _), RevertEffectModifiersFrom(_, _, _)

\* the loop of Arsenal::ApplyEffectModifiers, from modifier Index on
ApplyEffectModifiersFrom(A, id, Index) ==
    LET e == A.registry[id]
        bonuses == EffectRepository[e.archetype].bonuses
    IN  IF Index > Len(bonuses) THEN A
        ELSE Bind(Resolve(A.stats, bonuses[Index].magnitude), LAMBDA r :
             Bind(RMul(r.v, GetEffectiveIntensity(e)), LAMBDA Value :
                 ApplyEffectModifiersFrom(
                     ApplyModifier([A EXCEPT !.stats = r.s,
                                             !.registry[id].snapshot[Index] = Value],
                                   bonuses[Index].target, bonuses[Index].operator, Value),
                     id, Index + 1)))

\* Arsenal::ApplyEffectModifiers
ApplyEffectModifiers(A, id) == ApplyEffectModifiersFrom(A, id, 1)

\* the loop of Arsenal::RevertEffectModifiers, from modifier Index on
RevertEffectModifiersFrom(A, id, Index) ==
    LET e == A.registry[id]
        bonuses == EffectRepository[e.archetype].bonuses
    IN  IF Index > Len(bonuses) THEN A
        ELSE RevertEffectModifiersFrom(
                 RevertModifier(A, bonuses[Index].target, bonuses[Index].operator,
                                e.snapshot[Index]),
                 id, Index + 1)

\* Arsenal::RevertEffectModifiers
RevertEffectModifiers(A, id) == RevertEffectModifiersFrom(A, id, 1)

\* Arsenal::ReloadEffectModifier
ReloadEffectModifier(A, id, Slot) ==
    LET e == A.registry[id]
        Modifier == EffectRepository[e.archetype].bonuses[Slot]
    IN  Bind(RevertModifier(A, Modifier.target, Modifier.operator, e.snapshot[Slot]),
             LAMBDA A1 :
        Bind(Resolve(A1.stats, Modifier.magnitude), LAMBDA r :
        Bind(RMul(r.v, GetEffectiveIntensity(e)), LAMBDA Value :
            ApplyModifier([A1 EXCEPT !.stats = r.s, !.registry[id].snapshot[Slot] = Value],
                          Modifier.target, Modifier.operator, Value))))

RECURSIVE InsertLiveObservationFrom(_, _, _), RemoveLiveObservationFrom(_, _, _, _)

\* the loop of Arsenal::InsertLiveObservation, from modifier Index on
InsertLiveObservationFrom(A, id, Index) ==
    LET bonuses == EffectRepository[A.registry[id].archetype].bonuses
    IN  IF Index > Len(bonuses) THEN A
        ELSE IF bonuses[Index].evaluation # "Live"
             THEN InsertLiveObservationFrom(A, id, Index + 1)
             ELSE LET Target == bonuses[Index].target
                      A1 == IF A.observations[Target] = {}
                            THEN [A EXCEPT !.observers[Target] = @ + 1]
                            ELSE A
                  IN  InsertLiveObservationFrom(
                          [A1 EXCEPT !.observations[Target] = @ \cup {<<id, Index>>}],
                          id, Index + 1)

\* Arsenal::InsertLiveObservation
InsertLiveObservation(A, id) == InsertLiveObservationFrom(A, id, 1)

\* the loop of Arsenal::RemoveLiveObservation, from modifier Index on
RemoveLiveObservationFrom(A, id, archetype, Index) ==
    LET bonuses == EffectRepository[archetype].bonuses
    IN  IF Index > Len(bonuses) THEN A
        ELSE IF bonuses[Index].evaluation # "Live"
                \/ <<id, Index>> \notin A.observations[bonuses[Index].target]
             THEN RemoveLiveObservationFrom(A, id, archetype, Index + 1)
             ELSE LET Target == bonuses[Index].target
                      A1 == [A EXCEPT !.observations[Target] = @ \ {<<id, Index>>}]
                      A2 == IF A1.observations[Target] = {} /\ A1.observers[Target] > 0
                            THEN [A1 EXCEPT !.observers[Target] = @ - 1]
                            ELSE A1
                  IN  RemoveLiveObservationFrom(A2, id, archetype, Index + 1)

\* Arsenal::RemoveLiveObservation
RemoveLiveObservation(A, id) ==
    RemoveLiveObservationFrom(A, id, A.registry[id].archetype, 1)

RECURSIVE UpdateLiveObservationEach(_, _)

\* the loop of Arsenal::UpdateLiveObservation
UpdateLiveObservationEach(A, pending) ==
    IF pending = {} THEN A
    ELSE LET o == CHOOSE x \in pending :
                      \A y \in pending : x[1] < y[1] \/ (x[1] = y[1] /\ x[2] <= y[2])
         IN  UpdateLiveObservationEach(ReloadEffectModifier(A, o[1], o[2]), pending \ {o})

\* Arsenal::UpdateLiveObservation
UpdateLiveObservation(A, Handle) == UpdateLiveObservationEach(A, A.observations[Handle])

RECURSIVE StatSetPollEach(_, _)

\* the loop of StatSet::Poll: Broadcast runs the delegates bound to the stat
StatSetPollEach(A, pending) ==
    IF pending = {} THEN A
    ELSE LET h == CHOOSE x \in pending : \A y \in pending : x <= y
         IN  StatSetPollEach(
                 IF A.observers[h] > 0
                 THEN UpdateLiveObservation(
                          [A EXCEPT !.events = Append(@, [kind |-> "notify", handle |-> h,
                                                          value |-> GetStat(A.stats, h).v])],
                          h)
                 ELSE A,
                 pending \ {h})

\* StatSet::Poll
StatSetPoll(A) ==
    Bind(StatSetPollEach(A, A.notifications), LAMBDA A1 : [A1 EXCEPT !.notifications = {}])

----------------------------------------------------------------------------
(* The effect set.  mActives is kept in descending order of next-event     *)
(* time, so that the instance due soonest is at the back.                  *)

\* the instances alive in the Catalog
Live(A) == {id \in EffectIds : A.registry[id] # NoEffect}

\* Catalog::Allocate
Allocate(A) == CHOOSE id \in EffectIds \ Live(A) : \A o \in EffectIds \ Live(A) : id <= o

\* EffectSet::Create
Create(A, archetype) ==
    [A EXCEPT !.registry[Allocate(A)] = NewEffect(archetype), !.freed[Allocate(A)] = Unused]

\* EffectSet::Delete
Delete(A, id) ==
    IF A.registry[id] = NoEffect THEN [A EXCEPT !.asserted = TRUE]
    ELSE [A EXCEPT !.registry[id] = NoEffect, !.freed[id] = A.registry[id]]

\* the handles of the active list whose slot of mRegistry is free
Dangling(A) ==
    {id \in EffectIds :
        A.registry[id] = NoEffect /\ \E i \in DOMAIN A.actives : A.actives[i] = id}

\* mRegistry[...] as the code reads it through the handles D of the active
\* list: a free slot holds what it held last
Stale(A, D) ==
    [A EXCEPT !.registry = [id \in EffectIds |-> IF id \in D THEN A.freed[id] ELSE @[id]]]

\* the slots that were free when the call read them are free at its end, with
\* what the call wrote in them: Create is what marks a slot as taken
Unstale(B) ==
    [B EXCEPT !.registry = [id \in EffectIds |->
                               IF B.freed[id] # Unused THEN NoEffect ELSE @[id]],
              !.freed = [id \in EffectIds |->
                            IF B.freed[id] # Unused /\ B.registry[id] # NoEffect
                            THEN B.registry[id] ELSE @[id]]]

\* std::rotate(first, middle, last) on 1-based positions, last exclusive
Rotate(list, first, middle, last) ==
    SubSeq(list, 1, first - 1) \o SubSeq(list, middle, last - 1)
        \o SubSeq(list, first, middle - 1) \o SubSeq(list, last, Len(list))

RECURSIVE UpperBound(_, _, _, _)

\* std::upper_bound with the comparator of EffectSet::FindBestPosition
UpperBound(A, interval, first, len) ==
    IF len = 0 THEN first
    ELSE LET half   == len \div 2
             middle == first + half
         IN  IF RGe(interval, A.registry[A.actives[middle]].interval)
             THEN UpperBound(A, interval, first, half)
             ELSE UpperBound(A, interval, middle + 1, len - half - 1)

\* EffectSet::FindBestPosition
FindBestPosition(A, id) == UpperBound(A, A.registry[id].interval, 1, Len(A.actives))

\* EffectSet::FindByHandle
FindByHandle(A, id) ==
    IF \E i \in DOMAIN A.actives : A.actives[i] = id
    THEN CHOOSE i \in DOMAIN A.actives :
             A.actives[i] = id /\ \A j \in 1..(i - 1) : A.actives[j] # id
    ELSE Len(A.actives) + 1

\* EffectSet::FindByArchetype
FindByArchetype(A, archetype) ==
    LET Match(i) == A.registry[A.actives[i]].archetype = archetype
    IN  IF \E i \in DOMAIN A.actives : Match(i)
        THEN CHOOSE i \in DOMAIN A.actives : Match(i) /\ \A j \in 1..(i - 1) : ~Match(j)
        ELSE Len(A.actives) + 1

\* std::vector::erase
Erase(list, Index) == SubSeq(list, 1, Index - 1) \o SubSeq(list, Index + 1, Len(list))

\* std::vector::insert
Insert(list, Position, id) ==
    SubSeq(list, 1, Position - 1) \o <<id>> \o SubSeq(list, Position, Len(list))

\* the OnStackEffect callback of Arsenal::ApplyEffect
OnStackEffect(A, Instance, Inplace, Event) ==
    IF Event = "Insert"
    THEN InsertLiveObservation(ApplyEffectModifiers(A, Inplace), Instance)
    ELSE Bind(RevertEffectModifiers(A, Inplace), LAMBDA A1 :
             ApplyEffectModifiers(
                 Delete([A1 EXCEPT !.registry[Inplace] = Merge(@, A1.registry[Instance])],
                        Instance),
                 Inplace))

\* EffectSet::Activate(Instance, Action) inserting the instance without a look
\* for an active instance of its archetype
ActivateAlways(A, Instance) ==
    OnStackEffect([A EXCEPT !.actives = Insert(@, FindBestPosition(A, Instance), Instance)],
                  Instance, Instance, "Insert")

\* EffectSet::Activate(Instance, Action), with Action the OnStackEffect callback
\* that Arsenal::ApplyEffect passes
Activate(A, Instance) ==
    LET Archetype == A.registry[Instance].archetype
        Iterator  == FindByArchetype(A, Archetype)
    IN  IF CanStack(Archetype) /\ Iterator <= Len(A.actives)
        THEN Bind(OnStackEffect(A, Instance, A.actives[Iterator], "Update"), LAMBDA A1 :
             Bind(FindBestPosition(A1, A.actives[Iterator]), LAMBDA Position :
                 Delete(IF Position # Iterator
                        THEN [A1 EXCEPT !.actives =
                                 Rotate(@, IF Position < Iterator THEN Position ELSE Iterator,
                                        Iterator,
                                        IF Position < Iterator THEN Iterator ELSE Position)]
                        ELSE A1,
                        Instance)))
        ELSE OnStackEffect(
                 [A EXCEPT !.actives = Insert(@, FindBestPosition(A, Instance), Instance)],
                 Instance, Instance, "Insert")

\* EffectSet::Activate(Instance)
ActivateOnly(A, Instance) ==
    [A EXCEPT !.actives = Insert(@, FindBestPosition(A, Instance), Instance)]

\* EffectSet::Deactivate(Instance)
Deactivate(A, Instance) == [A EXCEPT !.actives = Erase(@, FindByHandle(A, Instance))]

\* Arsenal::OnTickEffect scheduling the next tick of a surviving instance one
\* period after its old next-tick time instead of after now
OnTickEffectLate(A, id, now) ==
    LET e     == A.registry[id]
        arch  == EffectRepository[e.archetype]
        stack == CASE arch.expiration = "Single" -> (e.stack - 1) % UInt16
                   [] arch.expiration = "All" -> 0
                   [] arch.expiration = "Tick" -> e.stack
        expiration == RAdd(now, e.duration)
        interval   == IF CanTick(e) THEN RAdd(e.interval, e.period) ELSE expiration
    IN  IF RGe(e.interval, e.expiration)
        THEN Bind(RevertEffectModifiers(A, id), LAMBDA A1 :
                 IF stack > 0
                 THEN Bind(ApplyEffectModifiers([A1 EXCEPT !.registry[id].stack = stack], id),
                           LAMBDA A3 :
                          [a |-> [A3 EXCEPT !.registry[id].expiration = expiration,
                                            !.registry[id].interval = interval],
                           remove |-> FALSE])
                 ELSE [a |-> RemoveLiveObservation(
                                 [A1 EXCEPT !.registry[id].stack = stack], id),
                       remove |-> TRUE])
        ELSE Bind(ApplyEffectModifiers(A, id), LAMBDA A1 :
                 [a |-> [A1 EXCEPT !.registry[id].interval = RAdd(now, e.period),
                                   !.registry[id].stack =
                                       IF arch.expiration = "Tick"
                                       THEN (e.stack - 1) % UInt16 ELSE e.stack],
                  remove |-> FALSE])

\* Arsenal::OnTickEffect
OnTickEffect(A, id, now) ==
    LET e     == A.registry[id]
        arch  == EffectRepository[e.archetype]
        stack == CASE arch.expiration = "Single" -> (e.stack - 1) % UInt16
                   [] arch.expiration = "All" -> 0
                   [] arch.expiration = "Tick" -> e.stack
        expiration == RAdd(now, e.duration)
        interval   == IF CanTick(e) THEN RAdd(now, e.period) ELSE expiration
    IN  IF RGe(e.interval, e.expiration)
        THEN Bind(RevertEffectModifiers(A, id), LAMBDA A1 :
                 IF stack > 0
                 THEN Bind(ApplyEffectModifiers([A1 EXCEPT !.registry[id].stack = stack], id),
                           LAMBDA A3 :
                          [a |-> [A3 EXCEPT !.registry[id].expiration = expiration,
                                            !.registry[id].interval = interval],
                           remove |-> FALSE])
                 ELSE [a |-> RemoveLiveObservation(
                                 [A1 EXCEPT !.registry[id].stack = stack], id),
                       remove |-> TRUE])
        ELSE Bind(ApplyEffectModifiers(A, id), LAMBDA A1 :
                 [a |-> [A1 EXCEPT !.registry[id].interval = RAdd(now, e.period),
                                   !.registry[id].stack =
                                       IF arch.expiration = "Tick"
                                       THEN (e.stack - 1) % UInt16 ELSE e.stack],
                  remove |-> FALSE])

\* the record of one Action call of EffectSet::Poll
EffectEvent(A, r, id) ==
    [kind |-> "effect", id |-> id, was |-> A.registry[id],
     is |-> IF r.remove THEN NoEffect ELSE r.a.registry[id],
     before |-> A.stats, after |-> r.a.stats]

RECURSIVE PollLoop(_, _, _, _), Reposition(_, _), SortActives(_, _)

\* the processing loop of EffectSet::Poll
PollLoop(A, now, Index, Threshold) ==
    IF Index < 1 \/ RGt(A.registry[A.actives[Index]].interval, now)
    THEN [a |-> A, threshold |-> Threshold]
    ELSE Bind(OnTickEffect(A, A.actives[Index], now), LAMBDA r :
         Bind([r.a EXCEPT !.events = Append(@, EffectEvent(A, r, A.actives[Index]))],
              LAMBDA A1 :
             IF r.remove
             THEN Bind([A1 EXCEPT !.registry[A.actives[Index]] = NoEffect,
                                  !.freed[A.actives[Index]] = A1.registry[A.actives[Index]],
                                  !.actives = Erase(@, Index),
                                  !.asserted = @ \/ A1.freed[A.actives[Index]] # Unused],
                       LAMBDA A2 :
                      PollLoop(Stale(A2, Dangling(A2)), now, Index - 1, Threshold))
             ELSE PollLoop(A1, now, Index - 1,
                           IF Len(Threshold) # kThreshold
                           THEN Append(Threshold, A.actives[Index]) ELSE Threshold)))

\* the repositioning loop of EffectSet::Poll
Reposition(A, Threshold) ==
    IF Threshold = <<>> THEN A
    ELSE LET Position == FindBestPosition(A, Head(Threshold))
             End      == Len(A.actives) + 1
             A1       == IF Position # End
                         THEN [A EXCEPT !.actives = Rotate(@, Position, End - 1, End)]
                         ELSE A
         IN  Reposition(A1, Tail(Threshold))

\* std::sort of EffectSet::Poll: insertion of each element before the first
\* element of the sorted prefix that the comparator orders after it
SortActives(A, sorted) ==
    IF Len(sorted) = Len(A.actives) THEN sorted
    ELSE LET id  == A.actives[Len(sorted) + 1]
             Before(i) == \A j \in i..Len(sorted) :
                              RGe(A.registry[id].interval, A.registry[sorted[j]].interval)
             pos == CHOOSE i \in 1..(Len(sorted) + 1) :
                        Before(i) /\ \A k \in 1..(i - 1) : ~Before(k)
         IN  SortActives(A, Insert(sorted, pos, id))

\* EffectSet::Poll
Poll(A, now) ==
    Bind(PollLoop(A, now, Len(A.actives), <<>>), LAMBDA r :
        IF Len(r.threshold) = kThreshold
        THEN [r.a EXCEPT !.actives = SortActives(r.a, <<>>)]
        ELSE Reposition(r.a, r.threshold))

\* Arsenal::Tick with the two passes exchanged: notifications are flushed first
TickNotifyFirst(A, now) == Poll(StatSetPoll(A), now)

\* Arsenal::Tick
Tick(A, now) == StatSetPoll(Poll(A, now))

RECURSIVE ApplyInstant(_, _, _)

\* the Instant branch of Arsenal::ApplyEffect, from modifier Index on
ApplyInstant(A, Archetype, Index) ==
    LET bonuses == EffectRepository[Archetype].bonuses
    IN  IF Index > Len(bonuses) THEN A
        ELSE Bind(Resolve(A.stats, bonuses[Index].magnitude), LAMBDA r :
                 ApplyInstant(
                     ApplyModifier([A EXCEPT !.stats = r.s], bonuses[Index].target,
                                   bonuses[Index].operator, r.v),
                     Archetype, Index + 1))

\* Arsenal::ApplyEffect keeping an instance for every application policy
ApplyEffectTracked(A, Archetype, Intensity, Stack, Timestamp) ==
    ApplyEffectModifiers(
        [A EXCEPT !.registry[Allocate(A)] =
            [NewEffect(Archetype) EXCEPT !.stack = Stack, !.intensity = Intensity]],
        Allocate(A))

\* Arsenal::ApplyEffect
ApplyEffect(A, Archetype, Intensity, Stack, Timestamp) ==
    LET Effect   == EffectRepository[Archetype]
        Instance == Allocate(A)
    IN  IF Effect.application = "Instant" THEN ApplyInstant(A, Archetype, 1)
        ELSE Bind(Create(A, Archetype), LAMBDA A1 :
             Bind(IF Effect.application = "Temporary"
                  THEN Resolve(A1.stats, Effect.duration)
                  ELSE [v |-> Real(0), s |-> A1.stats], LAMBDA Duration :
             Bind(IF Effect.application = "Temporary"
                  THEN RAdd(Timestamp, Duration.v) ELSE kInfinity, LAMBDA Expiration :
             Bind(Resolve(Duration.s, Effect.period), LAMBDA Period :
             Bind([A1 EXCEPT !.stats = Period.s,
                             !.registry[Instance] =
                                 [@ EXCEPT !.stack = Stack,
                                           !.intensity = Intensity,
                                           !.duration = Duration.v,
                                           !.expiration = Expiration,
                                           !.period = Period.v,
                                           !.interval = IF RGt(Period.v, Real(0))
                                                        THEN RAdd(Timestamp, Period.v)
                                                        ELSE Expiration]], LAMBDA A2 :
                 IF CanStack(Archetype) THEN Activate(A2, Instance)
                 ELSE InsertLiveObservation(
                          ApplyEffectModifiers(
                              IF CanTick(A2.registry[Instance])
                                 \/ CanExpire(A2.registry[Instance])
                              THEN ActivateOnly(A2, Instance) ELSE A2,
                              Instance),
                          Instance))))))

\* Arsenal::RevertEffect
RevertEffect(A, Handle) ==
    Delete(RemoveLiveObservation(
               RevertEffectModifiers(
                   IF CanExpire(A.registry[Handle]) THEN Deactivate(A, Handle) ELSE A,
                   Handle),
               Handle),
           Handle)

\* what std::vector::erase does with end(), which is undefined behaviour: the
\* process faults, or the vector gives up its last element
EraseEnd == {"fault", "drop"}

\* Arsenal::RevertEffect with a handle whose slot is free: the instance read
\* from mRegistry is what the slot held last, its handle reset by the destructor,
\* or a default-constructed instance without an archetype
RevertFreed(A, Handle, ub) ==
    LET Effect == A.freed[Handle]
    IN  IF Effect.archetype = 0 \/ (CanExpire(Effect) /\ ub = "fault")
        THEN [a |-> A, outcome |-> "fault"]
        ELSE Bind(RevertEffectModifiers(
                      [A EXCEPT !.registry[Handle] = Effect,
                                !.actives = IF CanExpire(Effect) /\ @ # <<>>
                                            THEN SubSeq(@, 1, Len(@) - 1) ELSE @],
                      Handle), LAMBDA A1 :
                 [a |-> [A1 EXCEPT !.registry[Handle] = NoEffect, !.asserted = TRUE],
                  outcome |-> "assert"])

----------------------------------------------------------------------------
(* The state machine: one actor, driven by its public operations.          *)

DirectModifiers ==
    {<<1, "Flat", Real(2)>>, <<3, "Multiplicative", Real(2)>>, <<4, "Divisive", Real(2)>>}

Queries == {1, 2, 3, 4}

Effects == {1, 2, 3, 4, 5}

Intensities == {Real(1)}

Stacks == {1}

Steps == 1..MaxStep

\* the members of a newly constructed Arsenal
NewArsenal ==
    [stats         |-> [h \in StatHandles |-> NoStat],
     dependencies  |-> [h \in StatHandles |-> {}],
     observers     |-> [h \in StatHandles |-> 0],
     notifications |-> {},
     registry      |-> [id \in EffectIds |-> NoEffect],
     actives       |-> <<>>,
     observations  |-> [h \in StatHandles |-> {}],
     freed         |-> [id \in EffectIds |-> Unused],
     events        |-> <<>>,
     asserted      |-> FALSE]

\* the Arsenal of the current state, at the start of a call
Arsenal ==
    [stats         |-> stats,
     dependencies  |-> dependencies,
     observers     |-> observers,
     notifications |-> notifications,
     registry      |-> registry,
     actives       |-> actives,
     observations  |-> observations,
     freed         |-> freed,
     events        |-> <<>>,
     asserted      |-> FALSE]

\* no value is buffered for a stat that is not queued for notification
NoValue == <<>>

\* the Arsenal at the return of a call becomes the next state
Return(B) ==
    /\ stats' = B.stats
    /\ dependencies' = B.dependencies
    /\ observers' = B.observers
    /\ notifications' = B.notifications
    /\ registry' = B.registry
    /\ actives' = B.actives
    /\ observations' = B.observations
    /\ freed' = B.freed
    /\ crashed' \in {B.asserted, FALSE}
    /\ previous' = [h \in StatHandles |->
                       IF h \notin B.notifications THEN NoValue
                       ELSE IF previous[h] # NoValue THEN previous[h]
                       ELSE GetStat(stats, h).v]

Call(op, target, due, events) ==
    [op |-> op, target |-> target, due |-> due, events |-> events]

Idle == [phase |-> "idle"]

Init ==
    /\ clock = 0
    /\ stats = NewArsenal.stats
    /\ dependencies = NewArsenal.dependencies
    /\ observers = NewArsenal.observers
    /\ notifications = NewArsenal.notifications
    /\ registry = NewArsenal.registry
    /\ actives = NewArsenal.actives
    /\ observations = NewArsenal.observations
    /\ freed = NewArsenal.freed
    /\ crashed = FALSE
    /\ log = Call("Arsenal", 0, {}, <<>>)
    /\ shadow = NewArsenal
    /\ budget = MaxCalls
    /\ probe = Idle
    /\ previous = [h \in StatHandles |-> NoValue]

\* the active instances whose next-event time has been reached at time now
Due(A, now) ==
    {A.actives[i] : i \in {j \in DOMAIN A.actives :
                              RLe(A.registry[A.actives[j]].interval, now)}}

CallTick(dt) ==
    /\ ~crashed
    /\ probe = Idle
    /\ clock + dt <= MaxTime
    /\ Bind(Unstale(Tick(Stale(Arsenal, Dangling(Arsenal)), Real(clock + dt))),
            LAMBDA B :
           /\ Return(B)
           /\ log' = Call("Tick", 0,
                          Due(Stale(Arsenal, Dangling(Arsenal)), Real(clock + dt)),
                          B.events))
    /\ clock' = clock + dt
    /\ UNCHANGED <<shadow, budget, probe>>

CallApplyModifier(h, operator, magnitude) ==
    /\ ~crashed
    /\ probe = Idle
    /\ budget > 0
    /\ Return(ApplyModifier(Arsenal, h, operator, magnitude))
    /\ shadow' = ApplyModifier(shadow, h, operator, magnitude)
    /\ budget' = budget - 1
    /\ log' = Call("ApplyModifier", h, {},
                    <<[kind |-> "modifier", operator |-> operator, magnitude |-> magnitude]>>)
    /\ UNCHANGED <<clock, probe>>

CallRevertModifier(h, operator, magnitude) ==
    /\ ~crashed
    /\ probe = Idle
    /\ budget > 0
    /\ Return(RevertModifier(Arsenal, h, operator, magnitude))
    /\ shadow' = RevertModifier(shadow, h, operator, magnitude)
    /\ budget' = budget - 1
    /\ log' = Call("RevertModifier", h, {},
                    <<[kind |-> "modifier", operator |-> operator, magnitude |-> magnitude]>>)
    /\ UNCHANGED <<clock, probe>>

CallGetStat(h) ==
    /\ ~crashed
    /\ probe = Idle
    /\ budget > 0
    /\ Bind(GetStat(stats, h), LAMBDA r :
           /\ Return([Arsenal EXCEPT !.stats = r.s])
           /\ log' = Call("GetStat", h, {}, <<[kind |-> "value", value |-> r.v]>>))
    /\ shadow' = [shadow EXCEPT !.stats = GetStat(shadow.stats, h).s]
    /\ budget' = budget - 1
    /\ UNCHANGED <<clock, probe>>

CallApplyEffect(archetype, intensity, stack) ==
    /\ ~crashed
    /\ probe = Idle
    /\ budget > 0
    /\ EffectRepository[archetype].application = "Instant"
           \/ (Live(Arsenal) # EffectIds /\ Cardinality(Live(Arsenal)) < kMaxInstances)
    /\ Bind(IF Live(Arsenal) # EffectIds
            THEN Dangling(Arsenal) \ {Allocate(Arsenal)} ELSE {}, LAMBDA D :
           Return(Unstale(ApplyEffect(Stale(Arsenal, D), archetype, intensity, stack,
                                      Real(clock)))))
    /\ shadow' = IF EffectRepository[archetype].application = "Instant"
                 THEN ApplyInstant(shadow, archetype, 1)
                 ELSE shadow
    /\ budget' = budget - 1
    /\ log' = Call("ApplyEffect", archetype, {},
                    <<[kind |-> "apply", intensity |-> intensity, stack |-> stack]>>)
    /\ UNCHANGED <<clock, probe>>

CallRevertEffect(id) ==
    /\ ~crashed
    /\ probe = Idle
    /\ registry[id] # NoEffect
    /\ Return(RevertEffect(Arsenal, id))
    /\ log' = Call("RevertEffect", id, {},
                    <<[kind |-> "revert", id |-> id, was |-> registry[id], is |-> NoEffect]>>)
    /\ UNCHANGED <<clock, shadow, budget, probe>>

\* RevertEffect called with a handle that denotes no live instance
CallRevertFreed(id, ub) ==
    /\ ~crashed
    /\ probe = Idle
    /\ registry[id] = NoEffect
    /\ Bind(RevertFreed(Arsenal, id, ub), LAMBDA r :
           /\ stats' = r.a.stats
           /\ dependencies' = r.a.dependencies
           /\ observers' = r.a.observers
           /\ notifications' = r.a.notifications
           /\ registry' = r.a.registry
           /\ actives' = r.a.actives
           /\ observations' = r.a.observations
           /\ freed' = r.a.freed
           /\ log' = Call("RevertEffect", id, {},
                          <<[kind |-> "freed", id |-> id, outcome |-> r.outcome]>>))
    /\ crashed' = TRUE
    /\ UNCHANGED <<clock, shadow, budget, probe, previous>>

Next ==
    \/ \E dt \in Steps : CallTick(dt)
    \/ \E m \in DirectModifiers : CallApplyModifier(m[1], m[2], m[3])
    \/ \E m \in DirectModifiers : CallRevertModifier(m[1], m[2], m[3])
    \/ \E h \in Queries : CallGetStat(h)
    \/ \E archetype \in Effects, intensity \in Intensities, stack \in Stacks :
           CallApplyEffect(archetype, intensity, stack)
    \/ \E id \in EffectIds : CallRevertEffect(id)

Spec == Init /\ [][Next]_vars

----------------------------------------------------------------------------
(* The same actor driven with the stacking effects: a Resource with fixed  *)
(* bounds, a periodic effect on it, and effects that merge up to a limit   *)
(* of 3 under each stack-scaling and expiration policy.                    *)

StackModifiers == {<<5, "Flat", Real(-30)>>}

StackQueries == {5}

StackEffects == {6, 7, 8}

StackIntensities == {Real(1), Real(2)}

StackStacks == {1}

NextStack ==
    \/ \E dt \in Steps : CallTick(dt)
    \/ \E m \in StackModifiers : CallApplyModifier(m[1], m[2], m[3])
    \/ \E m \in StackModifiers : CallRevertModifier(m[1], m[2], m[3])
    \/ \E h \in StackQueries : CallGetStat(h)
    \/ \E archetype \in StackEffects, intensity \in StackIntensities,
          stack \in StackStacks :
           CallApplyEffect(archetype, intensity, stack)
    \/ \E id \in EffectIds : CallRevertEffect(id)

SpecStack == Init /\ [][NextStack]_vars

----------------------------------------------------------------------------
(* The same actor with callers that also revert handles of instances that  *)
(* were never created, were reverted before or have expired.               *)

FreedEffects == {1, 3, 4}

NextFreed ==
    \/ \E dt \in Steps : CallTick(dt)
    \/ \E archetype \in FreedEffects, intensity \in Intensities, stack \in Stacks :
           CallApplyEffect(archetype, intensity, stack)
    \/ \E id \in EffectIds : CallRevertEffect(id)
    \/ \E id \in EffectIds, ub \in EraseEnd : CallRevertFreed(id, ub)

SpecFreed == Init /\ [][NextFreed]_vars

----------------------------------------------------------------------------
(* The actor driven by ApplyEffect and Tick alone, with effects applied at *)
(* one or two stacks: Fury and Rage lose a stack on expiration, Rage is    *)
(* not periodic, and Venom loses a stack on every periodic tick.           *)

NextRenew ==
    \/ \E dt \in Steps : CallTick(dt)
    \/ \E archetype \in {3, 7, 8}, intensity \in StackIntensities, stack \in {1, 2} :
           CallApplyEffect(archetype, intensity, stack)

SpecRenew == Init /\ [][NextRenew]_vars

----------------------------------------------------------------------------
(* The actor driven with Focus and with Pulse, a periodic effect whose     *)
(* duration is the default of an archetype, 0: applied at time 0 it has no *)
(* positive expiration time.                                               *)

NextLapse ==
    \/ \E dt \in Steps : CallTick(dt)
    \/ \E archetype \in {2, 14}, intensity \in Intensities, stack \in Stacks :
           CallApplyEffect(archetype, intensity, stack)
    \/ \E id \in EffectIds : CallRevertEffect(id)

SpecLapse == Init /\ [][NextLapse]_vars

----------------------------------------------------------------------------
(* The tail of EffectSet::Poll on its own: the active list as the          *)
(* processing loop leaves it, its front sorted and untouched, the          *)
(* survivors at its back with their new next-event times, and the          *)
(* Threshold buffer holding the survivors in the order they were           *)
(* processed, as many as fit.                                              *)

MaxActives == 7

\* the Threshold buffer of EffectSet::Poll after a loop that walked the last k
\* of n instances, none of them removed: the survivors from the back, as many
\* as fit
Survivors(n, k) ==
    [i \in 1..(IF k < kThreshold THEN k ELSE kThreshold) |-> n - i + 1]

InitSort ==
    /\ clock = 0
    /\ stats = NewArsenal.stats
    /\ dependencies = NewArsenal.dependencies
    /\ observers = NewArsenal.observers
    /\ notifications = NewArsenal.notifications
    /\ registry = NewArsenal.registry
    /\ actives = NewArsenal.actives
    /\ observations = NewArsenal.observations
    /\ freed = NewArsenal.freed
    /\ crashed = FALSE
    /\ log = Call("Arsenal", 0, {}, <<>>)
    /\ shadow = NewArsenal
    /\ budget = MaxCalls
    /\ previous = [h \in StatHandles |-> NoValue]
    /\ \E n \in 1..MaxActives :
       \E k \in 0..n, interval \in [1..n -> 1..3] :
           /\ \A i \in 1..(n - k - 1) : interval[i] >= interval[i + 1]
           /\ probe = [phase |-> "processed",
                       a |-> [registry |-> [id \in 1..n |-> [interval |-> Real(interval[id])]],
                              actives |-> [i \in 1..n |-> i]],
                       survivors |-> k,
                       threshold |-> Survivors(n, k),
                       polled |-> <<>>]

\* EffectSet::Poll after its processing loop
ProbePoll ==
    /\ probe.phase = "processed"
    /\ probe' = [probe EXCEPT !.phase = "polled",
                              !.polled = IF Len(probe.threshold) = kThreshold
                                         THEN SortActives(probe.a, <<>>)
                                         ELSE Reposition(probe.a, probe.threshold).actives]
    /\ UNCHANGED <<clock, stats, dependencies, observers, notifications, registry, actives,
                   observations, crashed, log, shadow, budget, previous, freed>>

SpecSort == InitSort /\ [][ProbePoll]_vars

----------------------------------------------------------------------------
(* The modifier evaluator on its own: Stat::Apply then Stat::Revert of one *)
(* operator and amount on one stat instance, for every category, operator, *)
(* amount and prior accumulators of the sets below.                        *)

ProbeAmounts == {Real(-3), Real(0), Ratio(1, 2), Real(2), Real(200)}

ProbeValues == {Real(0), Real(5), Real(10)}

ProbeMultipliers == {Real(1), Real(2)}

\* a stat set holding one resolved instance of h
ProbeStats(h, flat, multiplier, effective) ==
    [x \in StatHandles |->
        IF x = h
        THEN [NewStat EXCEPT !.flat = flat, !.multiplier = multiplier,
                             !.effective = effective, !.dirty = FALSE,
                             !.undefined = FALSE]
        ELSE NoStat]

InitModify ==
    /\ clock = 0
    /\ stats = NewArsenal.stats
    /\ dependencies = NewArsenal.dependencies
    /\ observers = NewArsenal.observers
    /\ notifications = NewArsenal.notifications
    /\ registry = NewArsenal.registry
    /\ actives = NewArsenal.actives
    /\ observations = NewArsenal.observations
    /\ freed = NewArsenal.freed
    /\ crashed = FALSE
    /\ log = Call("Arsenal", 0, {}, <<>>)
    /\ shadow = NewArsenal
    /\ budget = MaxCalls
    /\ previous = [x \in StatHandles |-> NoValue]
    /\ \E h \in StatHandles, operator \in StatOperators, amount \in ProbeAmounts,
          flat \in ProbeValues, multiplier \in ProbeMultipliers, effective \in ProbeValues :
           probe = [phase |-> "start", h |-> h, operator |-> operator, amount |-> amount,
                    s0 |-> ProbeStats(h, flat, multiplier, effective),
                    s |-> ProbeStats(h, flat, multiplier, effective)]

\* Stat::Apply
ProbeApply ==
    /\ probe.phase = "start"
    /\ probe' = [probe EXCEPT !.phase = "applied",
                              !.s = Modify(probe.s, probe.h, TRUE, probe.operator,
                                           probe.amount)]
    /\ UNCHANGED <<clock, stats, dependencies, observers, notifications, registry, actives,
                   observations, crashed, log, shadow, budget, previous, freed>>

\* Stat::Revert
ProbeRevert ==
    /\ probe.phase = "applied"
    /\ probe' = [probe EXCEPT !.phase = "reverted",
                              !.s = Modify(probe.s, probe.h, FALSE, probe.operator,
                                           probe.amount)]
    /\ UNCHANGED <<clock, stats, dependencies, observers, notifications, registry, actives,
                   observations, crashed, log, shadow, budget, previous, freed>>

NextModify == ProbeApply \/ ProbeRevert

SpecModify == InitModify /\ [][NextModify]_vars

----------------------------------------------------------------------------
(* The Coordinator: threads subscribing, unsubscribing and publishing on   *)
(* the delegate tables, each table behind its std::shared_mutex.  A call   *)
(* is taken one statement at a time; the lock guard of a call is released  *)
(* at its closing brace.                                                   *)

MaxThreads == 2

Threads == 1..MaxThreads

\* the delegate tables: mStatDelegates and mTokenDelegates
Kinds == {"Stat", "Token"}

CoordinatorTargets == {1}

CoordinatorDelegates == {1, 2}

\* a key that the table does not hold
Absent == [present |-> FALSE, delegates |-> {}]

\* the lock that a blocked thread has not acquired
NoLock == <<>>

\* a thread outside the Coordinator
Outside == [op |-> "none", kind |-> "Stat", target |-> 1, delegate |-> 1, at |-> "idle",
            seen |-> Absent]

InitCoordinator ==
    /\ clock = 0
    /\ stats = NewArsenal.stats
    /\ dependencies = NewArsenal.dependencies
    /\ observers = NewArsenal.observers
    /\ notifications = NewArsenal.notifications
    /\ registry = NewArsenal.registry
    /\ actives = NewArsenal.actives
    /\ observations = NewArsenal.observations
    /\ freed = NewArsenal.freed
    /\ crashed = FALSE
    /\ log = Call("Coordinator", 0, {}, <<>>)
    /\ shadow = NewArsenal
    /\ budget = MaxCalls
    /\ previous = [h \in StatHandles |-> NoValue]
    /\ probe = [phase |-> "coordinator",
                mutex |-> [k \in Kinds |-> [writer |-> 0, readers |-> {}]],
                delegates |-> [k \in Kinds |-> [x \in CoordinatorTargets |-> Absent]],
                pc |-> [t \in Threads |-> Outside],
                outer |-> [t \in Threads |-> Outside]]

\* thread t is at statement at of a call of op
At(t, op, at) ==
    /\ probe.phase = "coordinator"
    /\ probe.pc[t].op = op
    /\ probe.pc[t].at = at

\* the Coordinator after a statement of thread t
CoordinatorStep(t, at, mutex, delegates) ==
    /\ probe' = [probe EXCEPT !.pc[t].at = at, !.mutex = mutex, !.delegates = delegates]
    /\ UNCHANGED <<clock, stats, dependencies, observers, notifications, registry, actives,
                   observations, crashed, log, shadow, budget, previous, freed>>

\* a thread enters Subscribe, Unsubscribe or Publish
CoordinatorCall(t, op, kind, target, delegate) ==
    /\ At(t, "none", "idle")
    /\ probe' = [probe EXCEPT !.pc[t] = [op |-> op, kind |-> kind, target |-> target,
                                         delegate |-> delegate, at |-> "lock",
                                         seen |-> Absent]]
    /\ UNCHANGED <<clock, stats, dependencies, observers, notifications, registry, actives,
                   observations, crashed, log, shadow, budget, previous, freed>>

\* std::unique_lock on a std::shared_mutex, which blocks while any lock is
\* held: the mutex once thread t owns it, or NoLock while t has to wait
UniqueLock(mutex, k, t) ==
    IF mutex[k].writer = 0 /\ mutex[k].readers = {}
    THEN [mutex EXCEPT ![k].writer = t] ELSE NoLock

\* std::shared_lock on a std::shared_mutex, which blocks while the unique lock
\* is held
SharedLock(mutex, k, t) ==
    IF mutex[k].writer = 0
    THEN [mutex EXCEPT ![k].readers = @ \cup {t}] ELSE NoLock

\* the destructor of the lock guard
Unlock(mutex, k, t) ==
    [mutex EXCEPT ![k].writer = IF @ = t THEN 0 ELSE @, ![k].readers = @ \ {t}]

\* Coordinator::Subscribe taking the lock that Publish takes
SubscribeLockShared(t) ==
    /\ At(t, "Subscribe", "lock")
    /\ probe.mutex[probe.pc[t].kind].writer = 0
    /\ CoordinatorStep(t, "index",
           [probe.mutex EXCEPT ![probe.pc[t].kind].readers = @ \cup {t}],
           probe.delegates)

\* Coordinator::Subscribe: std::unique_lock Guard(mStatDelegatesMutex)
SubscribeLock(t) ==
    /\ At(t, "Subscribe", "lock")
    /\ UniqueLock(probe.mutex, probe.pc[t].kind, t) # NoLock
    /\ CoordinatorStep(t, "index", UniqueLock(probe.mutex, probe.pc[t].kind, t),
                       probe.delegates)

\* Coordinator::Subscribe: mStatDelegates[Target] inserts an empty entry for a
\* new key
SubscribeIndex(t) ==
    /\ At(t, "Subscribe", "index")
    /\ CoordinatorStep(t, "add", probe.mutex,
           [probe.delegates EXCEPT ![probe.pc[t].kind][probe.pc[t].target].present = TRUE])

\* Coordinator::Subscribe: .Add(Move(Delegate))
SubscribeAdd(t) ==
    /\ At(t, "Subscribe", "add")
    /\ CoordinatorStep(t, "unlock", probe.mutex,
           [probe.delegates EXCEPT ![probe.pc[t].kind][probe.pc[t].target].delegates =
               @ \cup {probe.pc[t].delegate}])

\* Coordinator::Unsubscribe: std::unique_lock Guard(mStatDelegatesMutex)
UnsubscribeLock(t) ==
    /\ At(t, "Unsubscribe", "lock")
    /\ UniqueLock(probe.mutex, probe.pc[t].kind, t) # NoLock
    /\ CoordinatorStep(t, "find", UniqueLock(probe.mutex, probe.pc[t].kind, t),
                       probe.delegates)

\* Coordinator::Unsubscribe: mStatDelegates.find(Target)
UnsubscribeFind(t) ==
    /\ At(t, "Unsubscribe", "find")
    /\ CoordinatorStep(t,
           IF probe.delegates[probe.pc[t].kind][probe.pc[t].target].present
           THEN "remove" ELSE "unlock",
           probe.mutex, probe.delegates)

\* Coordinator::Unsubscribe: Delegates.Remove(Delegate)
UnsubscribeRemove(t) ==
    /\ At(t, "Unsubscribe", "remove")
    /\ CoordinatorStep(t, "erase", probe.mutex,
           [probe.delegates EXCEPT ![probe.pc[t].kind][probe.pc[t].target].delegates =
               @ \ {probe.pc[t].delegate}])

\* Coordinator::Unsubscribe: if (Delegates.IsEmpty()) mStatDelegates.erase(Iterator)
UnsubscribeErase(t) ==
    /\ At(t, "Unsubscribe", "erase")
    /\ CoordinatorStep(t, "unlock", probe.mutex,
           [probe.delegates EXCEPT ![probe.pc[t].kind][probe.pc[t].target] =
               IF @.delegates = {} THEN Absent ELSE @])

\* Coordinator::Publish: std::shared_lock Guard(mStatDelegatesMutex)
PublishLock(t) ==
    /\ At(t, "Publish", "lock")
    /\ SharedLock(probe.mutex, probe.pc[t].kind, t) # NoLock
    /\ CoordinatorStep(t, "find", SharedLock(probe.mutex, probe.pc[t].kind, t),
                       probe.delegates)

\* Coordinator::Publish: mStatDelegates.find(Target)
PublishFind(t) ==
    /\ At(t, "Publish", "find")
    /\ probe' = [probe EXCEPT
                    !.pc[t].at = IF probe.delegates[probe.pc[t].kind][probe.pc[t].target].present
                                 THEN "broadcast" ELSE "unlock",
                    !.pc[t].seen = probe.delegates[probe.pc[t].kind][probe.pc[t].target]]
    /\ UNCHANGED <<clock, stats, dependencies, observers, notifications, registry, actives,
                   observations, crashed, log, shadow, budget, previous, freed>>

\* Coordinator::Publish: Iterator->second.Broadcast(Entity, Previous, Current)
PublishBroadcast(t) ==
    /\ At(t, "Publish", "broadcast")
    /\ probe' = [probe EXCEPT
                    !.pc[t].at = "unlock",
                    !.pc[t].seen = probe.delegates[probe.pc[t].kind][probe.pc[t].target]]
    /\ UNCHANGED <<clock, stats, dependencies, observers, notifications, registry, actives,
                   observations, crashed, log, shadow, budget, previous, freed>>

\* the closing brace of Subscribe, Unsubscribe and Publish
CoordinatorReturn(t) ==
    /\ probe.phase = "coordinator"
    /\ probe.pc[t].at = "unlock"
    /\ probe.outer[t] = Outside
    /\ probe' = [probe EXCEPT !.pc[t] = Outside,
                              !.mutex = Unlock(@, probe.pc[t].kind, t)]
    /\ UNCHANGED <<clock, stats, dependencies, observers, notifications, registry, actives,
                   observations, crashed, log, shadow, budget, previous, freed>>

NextCoordinator ==
    \E t \in Threads :
        \/ \E op \in {"Subscribe", "Unsubscribe"}, kind \in Kinds,
              target \in CoordinatorTargets, delegate \in CoordinatorDelegates :
               CoordinatorCall(t, op, kind, target, delegate)
        \/ \E kind \in Kinds, target \in CoordinatorTargets :
               CoordinatorCall(t, "Publish", kind, target, 1)
        \/ SubscribeLock(t)
        \/ SubscribeIndex(t)
        \/ SubscribeAdd(t)
        \/ UnsubscribeLock(t)
        \/ UnsubscribeFind(t)
        \/ UnsubscribeRemove(t)
        \/ UnsubscribeErase(t)
        \/ PublishLock(t)
        \/ PublishFind(t)
        \/ PublishBroadcast(t)
        \/ CoordinatorReturn(t)

SpecCoordinator == InitCoordinator /\ [][NextCoordinator]_vars

\* a delegate that Broadcast invokes calls Subscribe or Unsubscribe: the call
\* runs on the thread of the Publish, which holds its shared lock meanwhile
DelegateCall(t, op, kind, target, delegate) ==
    /\ At(t, "Publish", "broadcast")
    /\ probe.outer[t] = Outside
    /\ probe.pc[t].seen.delegates # {}
    /\ probe' = [probe EXCEPT !.outer[t] = probe.pc[t],
                              !.pc[t] = [op |-> op, kind |-> kind, target |-> target,
                                         delegate |-> delegate, at |-> "lock",
                                         seen |-> Absent]]
    /\ UNCHANGED <<clock, stats, dependencies, observers, notifications, registry, actives,
                   observations, crashed, log, shadow, budget, previous, freed>>

\* the closing brace of a Subscribe or Unsubscribe that a delegate called: the
\* thread is back in the Broadcast of its Publish
DelegateReturn(t) ==
    /\ probe.phase = "coordinator"
    /\ probe.pc[t].at = "unlock"
    /\ probe.outer[t] # Outside
    /\ probe' = [probe EXCEPT !.pc[t] = probe.outer[t],
                              !.outer[t] = Outside,
                              !.mutex = Unlock(@, probe.pc[t].kind, t)]
    /\ UNCHANGED <<clock, stats, dependencies, observers, notifications, registry, actives,
                   observations, crashed, log, shadow, budget, previous, freed>>

\* the Coordinator with delegates that call back into it
SpecReentrant ==
    InitCoordinator
        /\ [][\/ NextCoordinator
              \/ \E t \in Threads :
                     \/ \E op \in {"Subscribe", "Unsubscribe"}, kind \in Kinds,
                           target \in CoordinatorTargets, delegate \in CoordinatorDelegates :
                            DelegateCall(t, op, kind, target, delegate)
                     \/ DelegateReturn(t)]_vars

----------------------------------------------------------------------------
(* The stack scaling on its own: EffectData::GetEffectiveIntensity of one  *)
(* instance, then Arsenal::ApplyEffectModifiers of that instance on a new  *)
(* actor, for an archetype of every stack-scaling policy and every         *)
(* intensity and stack count of the sets below.                            *)

MaxStack == 4

\* Venom is Linear, Rage Exponential, Ward Diminish and Aura Independent
ScaledEffects == {4, 7, 8, 9}

ScaledIntensities == {Real(-2), Real(0), Ratio(1, 2), Real(1), Real(3)}

InitIntensity ==
    /\ clock = 0
    /\ stats = NewArsenal.stats
    /\ dependencies = NewArsenal.dependencies
    /\ observers = NewArsenal.observers
    /\ notifications = NewArsenal.notifications
    /\ registry = NewArsenal.registry
    /\ actives = NewArsenal.actives
    /\ observations = NewArsenal.observations
    /\ freed = NewArsenal.freed
    /\ crashed = FALSE
    /\ log = Call("Arsenal", 0, {}, <<>>)
    /\ shadow = NewArsenal
    /\ budget = MaxCalls
    /\ previous = [h \in StatHandles |-> NoValue]
    /\ \E archetype \in ScaledEffects, intensity \in ScaledIntensities, stack \in 0..MaxStack :
           probe = [phase |-> "start",
                    e |-> [NewEffect(archetype) EXCEPT !.intensity = intensity,
                                                       !.stack = stack],
                    value |-> Real(0),
                    a |-> NewArsenal]

\* EffectData::GetEffectiveIntensity
ProbeIntensity ==
    /\ probe.phase = "start"
    /\ probe' = [probe EXCEPT !.phase = "scaled", !.value = GetEffectiveIntensity(probe.e)]
    /\ UNCHANGED <<clock, stats, dependencies, observers, notifications, registry, actives,
                   observations, crashed, log, shadow, budget, previous, freed>>

\* Arsenal::ApplyEffectModifiers
ProbeApplyEffectModifiers ==
    /\ probe.phase = "scaled"
    /\ probe' = [probe EXCEPT !.phase = "applied",
                              !.a = ApplyEffectModifiers(
                                        [NewArsenal EXCEPT !.registry[1] = probe.e], 1)]
    /\ UNCHANGED <<clock, stats, dependencies, observers, notifications, registry, actives,
                   observations, crashed, log, shadow, budget, previous, freed>>

NextIntensity == ProbeIntensity \/ ProbeApplyEffectModifiers

SpecIntensity == InitIntensity /\ [][NextIntensity]_vars

----------------------------------------------------------------------------
(* Effect::Merge on its own: an existing instance of each Refresh and      *)
(* Resolution policy, below, at and above its stack limit, merged with an  *)
(* incoming instance that expires earlier or later and is as intense or    *)
(* not.                                                                    *)

\* Focus and Blend refresh by Replace, Fury and Ebb by Extend, Venom and Hex
\* by Keep, Rage and Peak by Longest; Hex resolves by Replace, Peak by
\* Highest, Ebb by Lowest, Blend by Average and the others by Additive
MergeEffects == {2, 3, 7, 8, 10, 11, 12, 13}

InitMerge ==
    /\ clock = 0
    /\ stats = NewArsenal.stats
    /\ dependencies = NewArsenal.dependencies
    /\ observers = NewArsenal.observers
    /\ notifications = NewArsenal.notifications
    /\ registry = NewArsenal.registry
    /\ actives = NewArsenal.actives
    /\ observations = NewArsenal.observations
    /\ freed = NewArsenal.freed
    /\ crashed = FALSE
    /\ log = Call("Arsenal", 0, {}, <<>>)
    /\ shadow = NewArsenal
    /\ budget = MaxCalls
    /\ previous = [h \in StatHandles |-> NoValue]
    /\ \E archetype \in MergeEffects, stack \in 1..MaxStack,
          intensity \in {Real(1), Real(2)}, expiration \in {Real(3), Real(5)} :
           probe = [phase |-> "existing",
                    e |-> [NewEffect(archetype) EXCEPT !.stack = stack,
                                                       !.intensity = intensity,
                                                       !.expiration = expiration,
                                                       !.interval = expiration],
                    other |-> NoEffect,
                    merged |-> NoEffect]

\* Effect::Merge
ProbeMerge(stack, intensity, expiration) ==
    /\ probe.phase = "existing"
    /\ Bind([NewEffect(probe.e.archetype) EXCEPT !.stack = stack,
                                                 !.intensity = intensity,
                                                 !.expiration = expiration,
                                                 !.interval = expiration], LAMBDA Other :
           probe' = [probe EXCEPT !.phase = "merged",
                                  !.other = Other,
                                  !.merged = Merge(probe.e, Other)])
    /\ UNCHANGED <<clock, stats, dependencies, observers, notifications, registry, actives,
                   observations, crashed, log, shadow, budget, previous, freed>>

SpecMerge ==
    InitMerge /\ [][\E stack \in {1, 2}, intensity \in {Real(1), Real(2), Real(3)},
                       expiration \in {Real(2), Real(5), Real(7)} :
                        ProbeMerge(stack, intensity, expiration)]_vars


----------------------------------------------------------------------------
(* The walks over the dependents of a changed stat, one loop iteration at  *)
(* a time: the call stack holds, for each call in progress, its source and *)
(* the dependents its loop has still to visit.  The graph is any relation  *)
(* over the nodes, each node has no instance, a clean one or a dirty one,  *)
(* and marks counts the calls of SetDirty on each node.  Both tables are   *)
(* unordered sets, so that a loop visits its dependents in any order.      *)

MaxNodes == 3

Nodes == 1..MaxNodes

InitNotify ==
    /\ clock = 0
    /\ stats = NewArsenal.stats
    /\ dependencies = NewArsenal.dependencies
    /\ observers = NewArsenal.observers
    /\ notifications = NewArsenal.notifications
    /\ registry = NewArsenal.registry
    /\ actives = NewArsenal.actives
    /\ observations = NewArsenal.observations
    /\ freed = NewArsenal.freed
    /\ crashed = FALSE
    /\ log = Call("Arsenal", 0, {}, <<>>)
    /\ shadow = NewArsenal
    /\ budget = MaxCalls
    /\ previous = [h \in StatHandles |-> NoValue]
    /\ \E walk \in {"StatSet", "StatRepository"}, graph \in [Nodes -> SUBSET Nodes],
          state \in [Nodes -> {"absent", "clean", "dirty"}] :
           probe = [phase |-> "notify", walk |-> walk, graph |-> graph, state |-> state,
                    stack |-> <<[source |-> 1, pending |-> graph[1]]>>,
                    marks |-> [n \in Nodes |-> 0],
                    queued |-> {}]

\* one iteration of the loop of StatSet::NotifyDependencies
NotifyVisit(d) ==
    /\ probe.phase = "notify" /\ probe.walk = "StatSet"
    /\ probe.stack # <<>>
    /\ d \in probe.stack[Len(probe.stack)].pending
    /\ probe' = IF probe.state[d] = "clean"
                THEN [probe EXCEPT !.stack = Append([@ EXCEPT ![Len(@)].pending = @ \ {d}],
                                                    [source |-> d, pending |-> probe.graph[d]]),
                                   !.state[d] = "dirty",
                                   !.marks[d] = @ + 1]
                ELSE [probe EXCEPT !.stack[Len(probe.stack)].pending = @ \ {d}]
    /\ UNCHANGED <<clock, stats, dependencies, observers, notifications, registry, actives,
                   observations, crashed, log, shadow, budget, previous, freed>>

\* one iteration of the loop of StatRepository::NotifyDependency, with the
\* Action that Arsenal::Notify passes: SetDirty and Calculate on the instance
RepositoryVisit(d) ==
    /\ probe.phase = "notify" /\ probe.walk = "StatRepository"
    /\ probe.stack # <<>>
    /\ Len(probe.stack) <= MaxNodes + 1
    /\ d \in probe.stack[Len(probe.stack)].pending
    /\ probe' = [probe EXCEPT !.stack = Append([@ EXCEPT ![Len(@)].pending = @ \ {d}],
                                               [source |-> d, pending |-> probe.graph[d]]),
                              !.state[d] = IF @ = "absent" THEN @ ELSE "clean",
                              !.marks[d] = IF probe.state[d] = "absent" THEN @ ELSE @ + 1]
    /\ UNCHANGED <<clock, stats, dependencies, observers, notifications, registry, actives,
                   observations, crashed, log, shadow, budget, previous, freed>>

\* the loop of a call is over: StatSet::NotifyDependencies queues its source
\* for notification, here with a delegate bound to every stat, and the call
\* returns
NotifyReturn ==
    /\ probe.phase = "notify"
    /\ probe.stack # <<>>
    /\ probe.stack[Len(probe.stack)].pending = {}
    /\ probe' = [probe EXCEPT !.stack = SubSeq(@, 1, Len(@) - 1),
                              !.queued = IF probe.walk = "StatSet"
                                         THEN @ \cup {probe.stack[Len(probe.stack)].source}
                                         ELSE @]
    /\ UNCHANGED <<clock, stats, dependencies, observers, notifications, registry, actives,
                   observations, crashed, log, shadow, budget, previous, freed>>

SpecNotify ==
    InitNotify /\ [][\/ \E d \in Nodes : NotifyVisit(d)
                     \/ \E d \in Nodes : RepositoryVisit(d)
                     \/ NotifyReturn]_vars

----------------------------------------------------------------------------
(* Properties.                                                             *)

\* the effect events of the last call
EffectEvents == {i \in DOMAIN log.events : log.events[i].kind = "effect"}

\* the notifications delivered by the last call
NotifyEvents == {i \in DOMAIN log.events : log.events[i].kind = "notify"}

\* the stats that depend on h directly, per the archetypes
Dependents(h) == {d \in StatHandles : h \in Traverse(d)}

RECURSIVE Closure(_)

\* the transitive closure of a set of stats under Dependents
Closure(set) ==
    LET next == set \cup UNION {Dependents(h) : h \in set}
    IN  IF next = set THEN set ELSE Closure(next)

\* C1: after any sequence of ApplyEffect, RevertEffect and Tick calls the
\* active list is sorted by next-event time, the instance due soonest at the
\* processing end (the back) of the list.
C1_ActiveListSorted ==
    \A i \in 1..(Len(actives) - 1) :
        RGe(registry[actives[i]].interval, registry[actives[i + 1]].interval)

\* C6: a Tick(now) processes, in that call, every active instance whose
\* next-event time was <= now when the call started.
C6_EveryDueInstanceProcessed ==
    log.op = "Tick" => log.due \subseteq {log.events[i].id : i \in EffectEvents}

\* C8: the next-tick time of every live instance is at most its expiration.
C8_NextTickWithinExpiration ==
    \A id \in EffectIds :
        registry[id] # NoEffect => RLe(registry[id].interval, registry[id].expiration)

\* the contribution-bearing part of a stat: the accumulators of an Attribute,
\* the value of a Resource
Contribution(s, h) ==
    IF StatRepository[h].category = "Attribute"
    THEN IF s[h] = NoStat THEN <<Real(0), Real(0), Real(1)>>
         ELSE <<s[h].flat, s[h].additive, s[h].multiplier>>
    ELSE GetStat(s, h).v

\* the events of the last call that removed an effect instance
RemovalEvents ==
    {i \in DOMAIN log.events :
        log.events[i].kind \in {"effect", "revert"} /\ log.events[i].is = NoEffect}

\* the stats targeted by the modifiers of an effect archetype
Targets(archetype) ==
    {EffectRepository[archetype].bonuses[k].target :
        k \in DOMAIN EffectRepository[archetype].bonuses}

\* C2: once an effect instance is removed, by RevertEffect or by its stack
\* reaching zero, its modifier contributions are gone: with no instance left,
\* the accumulators and value of every stat it targeted are what the calls
\* other than the effect's would have produced alone.
C2_RemovalRestoresStats ==
    (\A id \in EffectIds : registry[id] = NoEffect)
        => \A i \in RemovalEvents : \A h \in Targets(log.events[i].was.archetype) :
               Contribution(stats, h) = Contribution(shadow.stats, h)

\* C4: between public operations, an Attribute instance that is not dirty
\* caches the value of its archetype formula on its current accumulators and
\* the current values of its dependencies, clamped.
C4_CleanCacheIsCurrent ==
    \A h \in StatHandles :
        (stats[h] # NoStat /\ StatRepository[h].category = "Attribute" /\ ~stats[h].dirty)
            => stats[h].effective =
                   ArchetypeCalculate(stats, h, stats[h].flat, stats[h].additive,
                                      stats[h].multiplier).v

\* C5: when ApplyModifier or RevertModifier on a stat S returns, every
\* instantiated stat in the transitive closure of the dependents of S, per the
\* archetypes, is dirty.
C5_DependentsDirty ==
    log.op \in {"ApplyModifier", "RevertModifier"}
        => \A d \in Closure(Dependents(log.target)) :
               stats[d] # NoStat => stats[d].dirty

\* C7: an instance of a Temporary effect with period 0 and duration d applied
\* at t is not processed before t + d, and is processed exactly once, by the
\* first Tick(now) with now >= t + d: no such instance is left waiting past
\* its time, and its one processing ends it.
C7_OneShotProcessedOnce ==
    /\ \A id \in EffectIds :
           (/\ registry[id] # NoEffect
            /\ EffectRepository[registry[id].archetype].application = "Temporary"
            /\ ~CanTick(registry[id]))
               => RGt(registry[id].expiration, Real(clock))
    /\ \A i \in EffectEvents :
           LET ev == log.events[i]
           IN  (EffectRepository[ev.was.archetype].application = "Temporary"
                    /\ ~CanTick(ev.was))
                   => RLe(ev.was.expiration, Real(clock)) /\ ev.is = NoEffect

\* C9: a periodic tick that leaves the instance's effective intensity and
\* snapshotted magnitudes as they were leaves the value of every stat the
\* effect targets as it was.
C9_TickLeavesStatsUnchanged ==
    \A i \in EffectEvents :
        LET ev == log.events[i]
            bonuses == EffectRepository[ev.was.archetype].bonuses
        IN  (/\ RLt(ev.was.interval, ev.was.expiration)
             /\ ev.is # NoEffect
             /\ GetEffectiveIntensity(ev.is) = GetEffectiveIntensity(ev.was)
             /\ ev.is.snapshot = ev.was.snapshot)
                => \A k \in DOMAIN bonuses :
                       GetStat(ev.after, bonuses[k].target).v
                           = GetStat(ev.before, bonuses[k].target).v

C3_RevertUndoesApply ==
    (probe.phase = "reverted" /\ probe.operator # "Replace")
        => probe.s[probe.h] = probe.s0[probe.h]

\* C11: within one Tick, the effect instances that are processed are processed
\* in non-decreasing order of their next-event time.
C11_ProcessedInTimeOrder ==
    \A i \in EffectEvents : \A j \in EffectEvents :
        i < j => RLe(log.events[i].was.interval, log.events[j].was.interval)

\* C12: no instance with stack 0 survives processing: an instance whose stack
\* the expiration or periodic-tick processing of a Tick brought to 0 is, when
\* that Tick returns, neither in the registry nor in the active list.
C12_NoEmptyStackSurvives ==
    \A i \in EffectEvents :
        LET ev == log.events[i]
        IN  /\ ev.is # NoEffect => ev.is.stack # 0
            /\ ev.is = NoEffect =>
                   /\ registry[ev.id] = NoEffect
                   /\ \A k \in DOMAIN actives : actives[k] # ev.id

\* the live instances of an effect archetype in a registry
InstancesOf(reg, archetype) ==
    {id \in EffectIds : reg[id] # NoEffect /\ reg[id].archetype = archetype}

C14_ModifierThenEffect ==
    [][(/\ log.op = "ApplyModifier" /\ log.target = 5
        /\ log.events[1].operator = "Flat" /\ log.events[1].magnitude = Real(-30)
        /\ budget = MaxCalls - 1
        /\ log'.op = "ApplyEffect" /\ log'.target = 6
        /\ log'.events[1].intensity = Real(1) /\ log'.events[1].stack = 1)
           => GetStat(stats', 5).v = Real(80)]_vars

C14_Witness ==
    /\ log.op = "ApplyEffect" /\ log.target = 6
    /\ log.events[1].intensity = Real(1) /\ log.events[1].stack = 1
    /\ budget = MaxCalls - 2
    /\ shadow.stats[5] # NoStat
    /\ shadow.stats[5].effective = Real(70)
    /\ InstancesOf(registry, 6) # {}

\* the value of one input of the archetype of a stat, read in the stat set s
InputValue(s, input) ==
    IF input.kind = "Float" THEN input.value
    ELSE RAdd(input.base, RMul(GetStat(s, input.handle).v, input.coefficient))

\* the base of the archetype of h with no flat and no additive modifier and a
\* multiplier of 1, clamped to the archetype's bounds
Unmodified(s, h) ==
    Clamp(RMul(RMul(RAdd(InputValue(s, StatRepository[h].base), Real(0)),
                    RAdd(Real(1), Real(0))), Real(1)),
          InputValue(s, StatRepository[h].minimum),
          InputValue(s, StatRepository[h].maximum))

\* C15: GetStat of a stat that has no instance on the actor does not fail and
\* returns the archetype's calculation with flat 0, additive 0 and multiplier
\* 1, clamped to [min, max]; the actor still has no instance of the stat.
C15_MissingStatReadsDefault ==
    [][(log'.op = "GetStat" /\ stats[log'.target] = NoStat)
           => /\ log'.events[1].value = Unmodified(stats, log'.target)
              /\ ~IsNaN(log'.events[1].value)
              /\ ~crashed'
              /\ stats'[log'.target] = NoStat]_vars

C15_Witness ==
    /\ log.op = "GetStat"
    /\ stats[log.target] = NoStat
    /\ StatRepository[log.target].base.kind = "Ref"
    /\ stats[StatRepository[log.target].base.handle] # NoStat
    /\ log.events[1].value # Real(0)

\* the notifications for stat h among the events of the call that ends in the
\* next state
SentFor(h) ==
    {i \in DOMAIN log'.events :
        log'.events[i].kind = "notify" /\ log'.events[i].handle = h}

\* the value of stat h before the frame touched it: the value buffered when h
\* was queued or, for a stat queued by the Tick itself, its value before the Tick
PreviousValue(h) ==
    IF previous[h] # NoValue THEN previous[h] ELSE GetStat(stats, h).v

\* C16: for each stat handle touched during a frame, a Tick forwards at most
\* one notification, and forwards it if and only if the value of the stat,
\* resolved when the notification is sent, differs from the value it had
\* before the frame touched it.
C16_PublishOncePerChange ==
    [][log'.op = "Tick" =>
           \A h \in StatHandles :
               /\ Cardinality(SentFor(h)) <= 1
               /\ \A i \in SentFor(h) : log'.events[i].value # PreviousValue(h)
               /\ (previous[h] # NoValue /\ observers[h] > 0 /\ SentFor(h) = {})
                      => GetStat(stats', h).v = previous[h]]_vars

\* the threads inside op on table k: the lock taken, the guard not yet released
Inside(k, ops) ==
    {t \in Threads : /\ probe.pc[t].kind = k
                     /\ probe.pc[t].op \in ops
                     /\ probe.pc[t].at \notin {"idle", "lock"}}

\* table k holds a key whose delegate list is empty: an entry that Subscribe
\* has inserted and not filled, or that Unsubscribe has emptied and not erased
Midway(k) ==
    \E x \in CoordinatorTargets :
        probe.delegates[k][x].present /\ probe.delegates[k][x].delegates = {}

\* C17: on each delegate table of the Coordinator, at most one thread is
\* inside Subscribe or Unsubscribe, and while one is no thread is inside
\* Publish; no thread is inside Publish while the table is in the middle of a
\* mutation, and no Publish has read an entry in that state.
C17_ReadersWriterExclusion ==
    probe.phase = "coordinator" =>
        \A k \in Kinds :
            /\ Cardinality(Inside(k, {"Subscribe", "Unsubscribe"})) <= 1
            /\ Inside(k, {"Subscribe", "Unsubscribe"}) # {} => Inside(k, {"Publish"}) = {}
            /\ Inside(k, {"Publish"}) # {} => ~Midway(k)
            /\ \A t \in Inside(k, {"Publish"}) :
                   probe.pc[t].seen.present => probe.pc[t].seen.delegates # {}

\* two threads broadcast to the delegates of the same table at once
C17_Witness ==
    /\ probe.phase = "coordinator"
    /\ \E k \in Kinds :
           /\ Cardinality({t \in Inside(k, {"Publish"}) : probe.pc[t].at = "broadcast"}) >= 2
           /\ \E x \in CoordinatorTargets : probe.delegates[k][x].delegates # {}

\* C18: RevertEffect with a handle that denotes no live instance (never
\* created, reverted before, or expired and freed) is detected by an assertion
\* before any stat, the registry or the active list is modified.
C18_FreedHandleAsserts ==
    [][(log'.op = "RevertEffect" /\ registry[log'.target] = NoEffect)
           => /\ log'.events[1].outcome = "assert"
              /\ stats' = stats
              /\ registry' = registry
              /\ actives' = actives]_vars

\* intensity scaled for n stacks as each stack-scaling policy is specified
Scaled(policy, intensity, n) ==
    CASE policy = "Linear" -> Norm(intensity[1] * n, intensity[2])
      [] policy = "Diminish" -> Norm(2 ^ n - 1, 2 ^ n)
      [] policy = "Exponential" ->
            IF n = 0 THEN Real(1) ELSE Norm(intensity[1] ^ n, intensity[2] ^ n)
      [] policy = "Independent" -> intensity

\* C19: the effective intensity of an instance at stack n is intensity * n
\* under Linear scaling, 1 - 0.5^n under Diminish, intensity^n under
\* Exponential and the intensity itself under Independent, and it is the
\* factor by which ApplyEffectModifiers scales the magnitude of each modifier.
C19_IntensityScalesByPolicy ==
    probe.phase \in {"scaled", "applied"} =>
        LET arch   == EffectRepository[probe.e.archetype]
            scaled == Scaled(arch.stack, probe.e.intensity, probe.e.stack)
        IN  /\ probe.value = scaled
            /\ probe.phase = "applied" =>
                   \A i \in DOMAIN arch.bonuses :
                       probe.a.registry[1].snapshot[i] =
                           RMul(arch.bonuses[i].magnitude.value, scaled)

C19_Witness ==
    /\ probe.phase = "applied"
    /\ EffectRepository[probe.e.archetype].stack = "Diminish"
    /\ probe.e.stack = 3
    /\ probe.e.intensity = Real(3)
    /\ probe.value = Ratio(7, 8)
    /\ probe.a.registry[1].snapshot[1] = Real(7)

RECURSIVE OnceEach(_, _, _)

\* the stat set s after one ApplyModifier per modifier of bonuses, in order
OnceEach(s, bonuses, i) ==
    IF i > Len(bonuses) THEN s
    ELSE OnceEach(ApplyModifier([Arsenal EXCEPT !.stats = s], bonuses[i].target,
                                bonuses[i].operator,
                                InputValue(s, bonuses[i].magnitude)).stats,
                  bonuses, i + 1)

\* C20: ApplyEffect of an Instant archetype applies each modifier once and
\* leaves the registry and the active list as they were; no instance of an
\* Instant archetype is ever live, and a Tick of an actor without live
\* instances changes no stat, so that nothing reverts or re-applies them.
C20_InstantLeavesNoInstance ==
    [][/\ (/\ log'.op = "ApplyEffect"
            /\ EffectRepository[log'.target].application = "Instant")
               => /\ registry' = registry
                  /\ actives' = actives
                  /\ observations' = observations
                  /\ stats' = OnceEach(stats, EffectRepository[log'.target].bonuses, 1)
       /\ \A id \in EffectIds :
              registry'[id] # NoEffect
                  => EffectRepository[registry'[id].archetype].application # "Instant"
       /\ (log'.op = "Tick" /\ \A id \in EffectIds : registry[id] = NoEffect)
               => stats' = stats]_vars

C20_Witness ==
    /\ log.op = "Tick"
    /\ budget = MaxCalls - 1
    /\ \A id \in EffectIds : registry[id] = NoEffect /\ freed[id] = Unused
    /\ stats[4] # NoStat
    /\ stats[4].effective = Real(15)
    /\ shadow.stats[4] = stats[4]

\* the stats a change of h may invalidate: h and the transitive closure of
\* its dependents
Reach(h) == {h} \cup Closure(Dependents(h))

\* C21 as stated: a call that mutates stat S leaves the dirty flag and the
\* cached value of every stat outside the transitive closure of the dependents
\* of S as they were.
C21_NonDependentsUnchanged ==
    [][log'.op \in {"ApplyModifier", "RevertModifier"}
          => \A d \in StatHandles \ Reach(log'.target) : stats'[d] = stats[d]]_vars

\* C21 as amended: a call that mutates stat S never marks dirty a stat outside
\* the transitive closure of the dependents of S.  Such a stat gains no
\* instance and keeps its accumulators; a clean one is left as it was, and a
\* dirty one is either left as it was or resolved by the call, which clears
\* its flag and caches the value of its formula.
C21_NonDependentsNeverDirtied ==
    [][log'.op \in {"ApplyModifier", "RevertModifier"}
          => \A d \in StatHandles \ Reach(log'.target) :
                 \/ stats'[d] = stats[d]
                 \/ /\ stats[d] # NoStat
                    /\ stats[d].dirty
                    /\ stats'[d] = [stats[d] EXCEPT
                                       !.dirty = FALSE,
                                       !.undefined = FALSE,
                                       !.effective = GetOutcome(stats, d).v]]_vars

\* a modifier call has returned with both a clean and a dirty instance outside
\* the closure of its target
C21_Witness ==
    /\ log.op \in {"ApplyModifier", "RevertModifier"}
    /\ \E d \in StatHandles \ Reach(log.target) : stats[d] # NoStat /\ stats[d].dirty
    /\ \E d \in StatHandles \ Reach(log.target) : stats[d] # NoStat /\ ~stats[d].dirty

\* C23: when ApplyEffect targets a stacking archetype that already has an
\* active instance, the transient new instance is discarded exactly once: the
\* active list holds the handles it held, the registry the instances it held,
\* and no deletion of the call finds the instance already deleted.
C23_TransientDiscardedOnce ==
    [][(/\ log'.op = "ApplyEffect"
        /\ CanStack(log'.target)
        /\ InstancesOf(registry, log'.target) # {})
           => /\ {actives'[i] : i \in DOMAIN actives'} = {actives[i] : i \in DOMAIN actives}
              /\ Len(actives') = Len(actives)
              /\ Live(Arsenal)' = Live(Arsenal)
              /\ ~crashed']_vars

\* the policies of the instance being merged
Policy == EffectRepository[probe.e.archetype]

\* C24: Merge combines the expiration by the one rule its Refresh policy
\* selects: Keep leaves it, Replace takes the incoming expiration, Longest the
\* later of the two, Extend the existing one extended by the incoming one.
C24_OneRefreshRule ==
    probe.phase = "merged" =>
        probe.merged.expiration =
            CASE Policy.refresh = "Keep" -> probe.e.expiration
              [] Policy.refresh = "Replace" -> probe.other.expiration
              [] Policy.refresh = "Longest" ->
                    IF RLt(probe.e.expiration, probe.other.expiration)
                    THEN probe.other.expiration ELSE probe.e.expiration
              [] Policy.refresh = "Extend" ->
                    RAdd(probe.e.expiration, probe.other.expiration)

\* the stack count of two merged instances, capped at the limit
Capped == IF probe.e.stack + probe.other.stack < Policy.limit
          THEN probe.e.stack + probe.other.stack ELSE Policy.limit

\* C25: after Merge(existing, incoming) the stack count is
\* min(existing.stack + incoming.stack, limit), unless the Resolution policy is
\* Replace, Highest or Lowest and the two intensities differ, and then it is 1.
C25_StackCappedOrReset ==
    probe.phase = "merged" =>
        probe.merged.stack =
            IF /\ Policy.resolution \in {"Replace", "Highest", "Lowest"}
               /\ probe.e.intensity # probe.other.intensity
            THEN 1 ELSE Capped

\* a merge that resets the stack to 1 where the capped sum is not 1
C25_Witness ==
    /\ probe.phase = "merged"
    /\ Policy.resolution \in {"Replace", "Highest", "Lowest"}
    /\ probe.e.intensity # probe.other.intensity
    /\ probe.merged.stack = 1
    /\ Capped = Policy.limit

\* C26: under Additive or Average resolution Merge leaves the intensity of an
\* instance that is at its stack limit as it was, and otherwise makes it the
\* sum (Additive) or the mean (Average) of the two intensities.
C26_IntensityWhileNotFull ==
    (probe.phase = "merged" /\ Policy.resolution \in {"Additive", "Average"}) =>
        probe.merged.intensity =
            IF probe.e.stack = Policy.limit THEN probe.e.intensity
            ELSE IF Policy.resolution = "Additive"
                 THEN RAdd(probe.e.intensity, probe.other.intensity)
                 ELSE RMul(RAdd(probe.e.intensity, probe.other.intensity), Ratio(1, 2))

\* an Average merge at the limit that keeps an intensity the mean would change
C26_Witness ==
    /\ probe.phase = "merged"
    /\ Policy.resolution = "Average"
    /\ probe.e.stack = Policy.limit
    /\ probe.e.intensity # probe.other.intensity
    /\ probe.merged.intensity = probe.e.intensity

\* C27: the processing of an instance that holds at least one stack changes
\* its stack count by the archetype's Expiration policy: on expiration All sets
\* it to 0 and Single and Tick each decrement it by one; on a periodic tick
\* Tick decrements it by one and Single and All leave it as it was.  An
\* instance that the processing removed had its stack brought to 0.
C27_ExpirationPolicyOnStack ==
    \A i \in EffectEvents :
        LET ev     == log.events[i]
            policy == EffectRepository[ev.was.archetype].expiration
            after  == IF ev.is = NoEffect THEN 0 ELSE ev.is.stack
        IN  ev.was.stack > 0 =>
                after = IF RGe(ev.was.interval, ev.was.expiration)
                        THEN IF policy = "All" THEN 0 ELSE ev.was.stack - 1
                        ELSE IF policy = "Tick" THEN ev.was.stack - 1 ELSE ev.was.stack

\* C28: an instance that the expiration processing of Tick(now) leaves with a
\* stack above 0 has its modifiers re-applied at its new effective intensity
\* (each snapshot is the magnitude times that intensity, and a Flat modifier
\* of an Attribute moves the accumulator from the old snapshot to the new
\* one), its expiration set to now + duration, and its next tick set to
\* now + period, or to the new expiration if it is not periodic.
C28_SurvivorRenewed ==
    \A i \in EffectEvents :
        LET ev      == log.events[i]
            arch    == EffectRepository[ev.was.archetype]
            bonuses == arch.bonuses
        IN  (RGe(ev.was.interval, ev.was.expiration) /\ ev.is # NoEffect) =>
                /\ ev.is.stack > 0
                /\ ev.is.expiration = RAdd(Real(clock), ev.was.duration)
                /\ ev.is.interval = IF RGt(ev.was.period, Real(0))
                                    THEN RAdd(Real(clock), ev.was.period)
                                    ELSE ev.is.expiration
                /\ \A k \in DOMAIN bonuses :
                       /\ ev.is.snapshot[k] =
                              RMul(InputValue(ev.after, bonuses[k].magnitude),
                                   Scaled(arch.stack, ev.is.intensity, ev.is.stack))
                       /\ (/\ StatRepository[bonuses[k].target].category = "Attribute"
                           /\ bonuses[k].operator = "Flat")
                              => ev.after[bonuses[k].target].flat =
                                     RAdd(RSub(ev.before[bonuses[k].target].flat,
                                               ev.was.snapshot[k]),
                                          ev.is.snapshot[k])

\* a Tick has let one stack of a non-periodic instance expire and renewed the
\* rest at a lower effective intensity
C28_Witness ==
    /\ log.op = "Tick"
    /\ \E i \in EffectEvents :
           LET ev == log.events[i]
           IN  /\ RGe(ev.was.interval, ev.was.expiration)
               /\ ev.is # NoEffect
               /\ ~RGt(ev.was.period, Real(0))
               /\ ev.is.stack = ev.was.stack - 1
               /\ ev.is.snapshot # ev.was.snapshot
               /\ ev.is.interval = RAdd(Real(clock), ev.was.duration)

\* C29: the walk over the dependents of a changed stat terminates on every
\* dependency graph, diamond-shaped and cyclic ones included, and dirties each
\* node at most once: no node has SetDirty called on it twice, and the calls
\* never nest deeper than one per node below the first.
C29_WalkDirtiesOnceAndEnds ==
    probe.phase = "notify" =>
        /\ \A n \in Nodes : probe.marks[n] <= 1
        /\ Len(probe.stack) <= MaxNodes + 1

\* C30: every handle in the active list refers to an allocated instance of the
\* registry and appears in the list exactly once, so that no instance freed
\* by expiry, RevertEffect or a merge leaves its handle behind
C30_ActivesLiveAndUnique ==
    /\ \A i \in DOMAIN actives : registry[actives[i]] # NoEffect
    /\ \A i, j \in DOMAIN actives : actives[i] = actives[j] => i = j

\* C31: every instance of the active list has a stack count of at least 1 and
\* at most the stack limit of its archetype
C31_StackWithinLimit ==
    \A i \in DOMAIN actives :
        registry[actives[i]] # NoEffect =>
            /\ registry[actives[i]].stack >= 1
            /\ registry[actives[i]].stack <= EffectRepository[registry[actives[i]].archetype].limit

\* C32: of an archetype that allows stacking, the active list holds at most
\* one instance, whatever ApplyEffect, RevertEffect and Tick calls were made
C32_OneInstancePerStackingArchetype ==
    \A i, j \in DOMAIN actives :
        (/\ registry[actives[i]] # NoEffect
         /\ registry[actives[j]] # NoEffect
         /\ registry[actives[i]].archetype = registry[actives[j]].archetype
         /\ CanStack(registry[actives[i]].archetype)) => i = j

\* a second ApplyEffect of a stacking archetype has returned, with the one
\* instance of the archetype holding both stacks next to another instance
C32_Witness ==
    /\ log.op = "ApplyEffect"
    /\ CanStack(log.target)
    /\ Len(actives) >= 2
    /\ \E i \in DOMAIN actives :
           /\ registry[actives[i]].archetype = log.target
           /\ registry[actives[i]].stack >= 2

\* C33: after the tail of Poll the active list is sorted by next-event time,
\* the soonest instance at the back, for every number of survivors: when they
\* fit in the Threshold buffer and are repositioned one by one, and when the
\* buffer is full and the whole list is sorted again
C33_PolledListSorted ==
    probe.phase = "polled" =>
        \A i \in 1..(Len(probe.polled) - 1) :
            RGe(probe.a.registry[probe.polled[i]].interval,
                probe.a.registry[probe.polled[i + 1]].interval)

\* C34: a GetStat of a Resource stat that dependency propagation has marked
\* dirty returns the value the stat had, clamped to its current minimum and
\* maximum, and not a value computed again from its base
C34_DirtyResourceKeepsValue ==
    [][\A h \in StatHandles :
           (/\ log'.op = "GetStat"
            /\ log'.target = h
            /\ StatRepository[h].category = "Resource"
            /\ stats[h] # NoStat
            /\ stats[h].dirty
            /\ ~stats[h].undefined) =>
               log'.events[1].value =
                   Clamp(stats[h].effective,
                         Resolve(stats, StatRepository[h].minimum).v,
                         Resolve(stats, StatRepository[h].maximum).v)]_vars

RECURSIVE LostFrom(_, _, _)

\* the handles that the delegates run by the loop of StatSet::Poll put in the
\* notification buffer and that the rest of the loop does not deliver
LostFrom(A, pending, lost) ==
    IF pending = {} THEN lost
    ELSE LET h == CHOOSE x \in pending : \A y \in pending : x <= y
         IN  IF A.observers[h] > 0
             THEN Bind(UpdateLiveObservation([A EXCEPT !.notifications = {}], h),
                       LAMBDA A1 :
                      LostFrom(A1, pending \ {h}, (lost \ {h}) \cup A1.notifications))
             ELSE LostFrom(A, pending \ {h}, lost)

\* C36: no Tick clears a handle that was put in the notification buffer and
\* not delivered since: every handle a delegate adds while Poll runs is
\* delivered by the rest of that Poll or is still buffered when it returns
C36_NoNotificationLost ==
    [][log'.op = "Tick" =>
           Bind(Poll(Arsenal, Real(clock')), LAMBDA A :
               LostFrom(A, A.notifications, {}) \subseteq notifications')]_vars

\* the same for the handles the buffer held when Poll started: each of them
\* that has observers is delivered by that Poll
C36_BufferedAreDelivered ==
    [][log'.op = "Tick" =>
           Bind(Poll(Arsenal, Real(clock')), LAMBDA A :
               \A h \in A.notifications :
                   A.observers[h] > 0 =>
                       \E i \in DOMAIN log'.events :
                           log'.events[i].kind = "notify" /\ log'.events[i].handle = h)]_vars

\* the threads that hold a lock on the mutex of table k
Holders(k) ==
    (IF probe.mutex[k].writer = 0 THEN {} ELSE {probe.mutex[k].writer})
        \cup probe.mutex[k].readers

\* thread t is at a lock statement that the mutex does not let it pass
Waiting(t) ==
    /\ probe.pc[t].at = "lock"
    /\ IF probe.pc[t].op = "Publish"
       THEN SharedLock(probe.mutex, probe.pc[t].kind, t) = NoLock
       ELSE UniqueLock(probe.mutex, probe.pc[t].kind, t) = NoLock

\* C37: no call of Publish, Subscribe or Unsubscribe is stuck for ever on a
\* table's lock: there is no set of threads each waiting for a lock that only
\* threads of the set hold, whether the calls come from outside or from a
\* delegate that Publish is running
C37_NoDeadlock ==
    probe.phase = "coordinator" =>
        ~\E D \in SUBSET Threads \ {{}} :
            \A t \in D : Waiting(t) /\ Holders(probe.pc[t].kind) \subseteq D

\* C38: no call of ApplyModifier, RevertModifier, ApplyEffect, RevertEffect,
\* GetStat or Tick adds a dependency edge to the table of the actor or removes
\* one from it
C38_DependencyGraphStatic ==
    [][dependencies' = dependencies]_vars

\* the same with the first reference to a stat set aside: edges are never
\* removed, every edge is one the archetypes declare, and the calls that
\* create no stat instance leave the table as it is
C38_EdgesOnlyOnFirstReference ==
    [][/\ \A h \in StatHandles : dependencies[h] \subseteq dependencies'[h]
       /\ \A h \in StatHandles : dependencies'[h] \subseteq Dependents(h)
       /\ (\A h \in StatHandles : (stats[h] = NoStat) = (stats'[h] = NoStat))
              => dependencies' = dependencies
       /\ log'.op \in {"GetStat", "RevertEffect"} => dependencies' = dependencies]_vars

\* the stats that get their instance in the step
Created == {h \in StatHandles : stats[h] = NoStat /\ stats'[h] # NoStat}

\* the value of a new Resource instance h is its base, clamped, with the
\* modifier of the ApplyModifier call that created it applied
SeededFromBase(h) ==
    (log'.op = "ApplyModifier" /\ log'.target = h) =>
        Bind(Resolve(stats', StatRepository[h].base).v, LAMBDA base :
            stats'[h].effective =
                Modify(SetEffective(stats', h, base), h, TRUE,
                       log'.events[1].operator, log'.events[1].magnitude)[h].effective)

\* C39: a call that refers to a stat keeps the instance the actor has, and
\* creates one when there is none; a new Attribute instance is resolved, its
\* dirty flag false, when the call returns, and a new Resource instance has
\* its value seeded from its base before a modifier is applied to it
C39_NewInstanceResolvedOrSeeded ==
    [][/\ \A h \in StatHandles : stats[h] # NoStat => stats'[h] # NoStat
       /\ \A h \in Created :
              IF StatRepository[h].category = "Attribute"
              THEN ~stats'[h].dirty
              ELSE SeededFromBase(h)]_vars

\* the same without the Attribute instances that RevertModifier creates
C39_ResolvedOrSeededByApply ==
    [][/\ \A h \in StatHandles : stats[h] # NoStat => stats'[h] # NoStat
       /\ \A h \in Created :
              IF StatRepository[h].category = "Attribute"
              THEN log'.op # "RevertModifier" => ~stats'[h].dirty
              ELSE SeededFromBase(h)]_vars

====
